---- MODULE Spec2Model ----
(***************************************************************************)
(* A model of the resvg drawing-backend adapters: the Skia C API           *)
(* (resvg-skia/skia-bindings/skia_capi.cpp and the older                    *)
(* resvg-skia/cpp/skia_capi.cpp) and the Qt C API                           *)
(* (bindings/resvg-qt/cpp/qt_capi.cpp), and of the ResvgRenderer class      *)
(* built on the C API (capi/qt-wrapper/ResvgQt.cpp).                        *)
(*                                                                         *)
(* The module holds several specifications over one set of variables; each  *)
(* specification drives one part of the adapters and leaves the variables   *)
(* of the other parts at their initial values:                              *)
(*   SpecRef    - reference counts of Skia shaders / path effects           *)
(*   SpecMatrix - transform create_from / get_data in the three adapters    *)
(*   SpecCanvas - SkCanvas matrix / clip / save / restore                   *)
(*   SpecPaint  - the same canvas calls interleaved with SkPaint setters    *)
(*   SpecPen    - QPen width and dash normalisation                         *)
(*   SpecQt     - QBrush / QPen / QPainter attach-by-copy                   *)
(*   SpecMake   - the fallible constructors, copy and save of the images    *)
(*   SpecPath   - QPainterPath / SkPath construction and fill rule          *)
(*   SpecDraw   - QPainter draw calls with and without pen and brush        *)
(*   SpecClip   - the clip calls of QPainter and of SkCanvas                *)
(*   SpecRenderer - ResvgRenderer::load and the queries after it            *)
(*   SpecView   - the viewers: loads on the UI thread, renders on the       *)
(*                worker thread (SpecViewLive: under fair scheduling)       *)
(*   SpecDiff   - Render::diffImage of the diff tool                        *)
(*   SpecVdiff  - the render and diff pipeline of the diff tool             *)
(*   SpecSkia   - loads and destruction of the Skia viewers                 *)
(*   SpecDll    - the reference counts of the Explorer thumbnailer DLL      *)
(***************************************************************************)
EXTENDS Integers, Sequences, FiniteSets, TLC

VARIABLES
    \* ---- Skia reference counting (SpecRef)
    obj,        \* native SkShader / SkPathEffect objects: id -> [kind, rc, freed]
    hnd,        \* the C handle of each native object: "none" | "live" | "destroyed"
    paints,     \* SkPaint objects: id -> [st, shader, effect]
    attached,   \* history: the paints each native object was ever attached to
    touched,    \* history: a freed object was reffed / unreffed (use after free)
    \* ---- transforms (SpecMatrix)
    coef,       \* the six coefficients handed to *_create_from
    native,     \* backend -> the native matrix built from coef, or NoMatrix
    readback,   \* backend -> what *_get_data returned, or NoData
    inverse,    \* backend -> what skiac_matrix_create_inverse returned
    \* ---- SkCanvas (SpecCanvas)
    mcStack,    \* SkCanvas' stack of (matrix, clip) records; the last is current
    skpaint,    \* the SkPaint handed to the draw calls
    snap,       \* history: the drawing state observed at each unrestored save()
    calls,      \* history: the number of calls made on the canvas and the paint
    undid,      \* history: what each restore() with a matching save() changed
    \* ---- QPen numerics (SpecPen) and Qt objects (SpecQt)
    qpen,       \* the QPen behind a qtc_qpen handle
    penLog,     \* history: the setter calls made on qpen since qtc_qpen_create
    qbrush,     \* the QBrush behind a qtc_qbrush handle
    qlg,        \* the QLinearGradient behind a qtc_qlineargradient handle
    qrg,        \* the QRadialGradient behind a qtc_qradialgradient handle
    qimg,       \* the QImage behind a qtc_qimage handle
    qpainter,   \* the QPainter: its own pen, brush, opacity, ...
    lastKind,   \* history: the paint kind of the last qtc_qbrush_set_* call
    qtCalls,    \* history: the number of calls made in a run of SpecQt
    \* ---- images and surfaces (SpecMake, SpecDraw)
    image,      \* backend -> the canvas behind the qtc_qimage / skiac_surface handle
    copied,     \* backend -> the canvas returned by the last copy call
    live,       \* backend -> the number of native image objects allocated and not freed
    mkLog,      \* history: the fallible calls made, what the toolkit yielded and what they returned
    aborted,    \* the process died on an invalid memory access
    \* ---- paths (SpecPath)
    path,       \* backend -> the QPainterPath / SkPath behind the path handle
    ruleSet,    \* history: backend -> the fill rule setter was called on the path
    \* ---- drawing and clipping with a QPainter (SpecDraw, SpecClip)
    paintHist,  \* history: the last pen / brush / clip calls on the painter, the pixels drawn on
    \* ---- ResvgRenderer (SpecRenderer)
    dptr,       \* the ResvgRendererPrivate behind a ResvgRenderer (its d pointer)
    loads,      \* history: the load calls made on the renderer and what they returned
    asked,      \* history: the last boundsOnElement query and what it returned
    \* ---- the Qt viewers (SpecView)
    svgView,    \* SvgView: m_img, m_isHasImage, m_timer, ... and the history of its installs
    svgWorker,  \* SvgViewWorker: m_renderer, m_qtRenderer and the document they hold
    uiThread,   \* the UI thread: where it is in loadData / loadFile, or idle in its event loop
    wkThread,   \* the worker thread: where it is in render(), or idle in its event loop
    m_mutex,    \* SvgViewWorker::m_mutex: "free" or the thread holding it
    wkEvents,   \* the render() calls posted to the worker thread
    uiEvents,   \* the rendered(img) signals queued for the UI thread
    \* ---- the diff tool (SpecDiff)
    diffData,   \* the two images handed to Render::diffImage
    diffOutput, \* what Render::diffImage returned, or NoDiff
    m_render,   \* the Render object: the tasks its watchers wait for, m_imgs
    mainWindow, \* the MainWindow: its controls, and the history of the signals it got
    skView,     \* a Skia viewer: tree_, imageChanged_, svgSize_, and what its last load did
    skTrees,    \* the render trees created for it, each with its count of destroy calls
    thumbnailer \* the thumbnailer DLL: g_cRef, each provider's m_cRef, the last results

refVars    == <<obj, hnd, paints, attached, touched>>
matrixVars == <<coef, native, readback, inverse>>
canvasVars == <<mcStack, skpaint, snap, calls, undid>>
penVars    == <<qpen, penLog>>
qtObjs     == <<qbrush, qlg, qrg, qimg, qpainter, lastKind>>
qtVars     == <<qtObjs, qtCalls>>
imgVars    == <<image, copied, live, mkLog, aborted>>
pathVars   == <<path, ruleSet>>
rendVars   == <<dptr, loads, asked>>
viewVars   == <<svgView, svgWorker, uiThread, wkThread, m_mutex, wkEvents, uiEvents>>
diffVars   == <<diffData, diffOutput>>
vdiffVars  == <<m_render, mainWindow>>
skiaVars   == <<skView, skTrees>>
winVars    == <<skiaVars, thumbnailer>>
toolVars   == <<viewVars, diffVars, vdiffVars, winVars>>
moreVars   == <<imgVars, pathVars, paintHist, rendVars, toolVars>>
vars       == <<refVars, matrixVars, canvasVars, penVars, qtVars, moreVars>>

Abs(x) == IF x < 0 THEN -x ELSE x
Min(a, b) == IF a < b THEN a ELSE b

(***************************************************************************)
(* Skia reference counting.                                                *)
(*                                                                         *)
(* SkShader and SkPathEffect derive from SkRefCnt: ref() adds one to the   *)
(* count, unref() subtracts one and deletes the object when the count      *)
(* reaches zero.  sk_sp<T>(T* p) adopts p without ref(); copying an sk_sp  *)
(* calls ref(); destroying a non-null sk_sp calls unref().                 *)
(***************************************************************************)
MaxObjs   == 2      \* native objects that can be made
MaxPaints == 2      \* SkPaint objects that can be created
MaxRc     == 3      \* the count a freed (dangling) object's memory may show

ObjIds   == 1 .. MaxObjs
PaintIds == 1 .. MaxPaints
NULL     == 0

NoObj   == [kind |-> "none", rc |-> 0, freed |-> FALSE]
NoPaint == [st |-> "none", shader |-> NULL, effect |-> NULL]

\* SkRefCnt::ref() on object o of the table t.  On a freed object the read
\* and the write hit released memory: the calling action records it in
\* `touched' and takes its result from Outcomes.
SkRef(t, o) ==
    IF o = NULL \/ t[o].freed THEN t
    ELSE [t EXCEPT ![o].rc = @ + 1]

\* SkRefCnt::unref() / SkSafeUnref(): subtract one, delete at zero.
SkUnref(t, o) ==
    IF o = NULL \/ t[o].freed THEN t
    ELSE IF t[o].rc = 1 THEN [t EXCEPT ![o].rc = 0, ![o].freed = TRUE]
    ELSE [t EXCEPT ![o].rc = @ - 1]

\* whether a ref/unref of o in table t touches released memory
Dangling(t, o) == o # NULL /\ t[o].freed

\* What the object table can look like after a call.  A call that reffed or
\* unreffed a freed object wrote to released memory: the count stored there
\* is then any value, the object itself stays freed.
Outcomes(t, dangling) ==
    IF dangling
    THEN {t} \cup {[t EXCEPT ![o].rc = r] :
                      o \in {q \in ObjIds : t[q].freed}, r \in 0 .. MaxRc}
    ELSE {t}

RefInit ==
    /\ obj = [o \in ObjIds |-> NoObj]
    /\ hnd = [o \in ObjIds |-> "none"]
    /\ paints = [p \in PaintIds |-> NoPaint]
    /\ attached = [o \in ObjIds |-> {}]
    /\ touched = FALSE

\* skiac_shader_make_linear_gradient / _two_point_conical_gradient /
\* _from_surface_image and skiac_path_effect_make_dash_path, when the
\* toolkit yields an object: Make(...).release() leaves the count at 1, the
\* following ref() makes it 2, and the raw pointer is the handle.
MakeObject(o, kind) ==
    /\ hnd[o] = "none"
    /\ \A q \in ObjIds : q < o => hnd[q] # "none"
    /\ obj' = [obj EXCEPT ![o] = [kind |-> kind, rc |-> 2, freed |-> FALSE]]
    /\ hnd' = [hnd EXCEPT ![o] = "live"]
    /\ UNCHANGED <<paints, attached, touched>>

skiac_shader_make(o) == MakeObject(o, "shader")

skiac_path_effect_make_dash_path(o) == MakeObject(o, "effect")

skiac_paint_create(p) ==
    /\ paints[p].st = "none"
    /\ \A q \in PaintIds : q < p => paints[q].st # "none"
    /\ paints' = [paints EXCEPT ![p] = [st |-> "live", shader |-> NULL, effect |-> NULL]]
    /\ UNCHANGED <<obj, hnd, attached, touched>>

\* The three reference-count steps of skiac_paint_set_shader and
\* skiac_paint_set_path_effect on an SkPaint whose field holds `old':
\*   sk_sp<T> local(raw)        adopts raw, no ref()
\*   paint->setX(local)         copies local (ref new), releases the old field
\*   ~sk_sp                     the local goes out of scope (unref new)
AttachCounts(t, old, new) == SkUnref(SkUnref(SkRef(t, new), old), new)

AttachTouches(t, old, new) ==
    \/ Dangling(t, new)
    \/ Dangling(SkRef(t, new), old)
    \/ Dangling(SkUnref(SkRef(t, new), old), new)

skiac_paint_set_shader(p, o) ==
    /\ paints[p].st = "live"
    /\ o # NULL => (hnd[o] = "live" /\ obj[o].kind = "shader")
    /\ obj' \in Outcomes(AttachCounts(obj, paints[p].shader, o),
                          AttachTouches(obj, paints[p].shader, o))
    /\ touched' = (touched \/ AttachTouches(obj, paints[p].shader, o))
    /\ paints' = [paints EXCEPT ![p].shader = o]
    /\ attached' = IF o = NULL THEN attached
                   ELSE [attached EXCEPT ![o] = @ \cup {p}]
    /\ UNCHANGED hnd

skiac_paint_set_path_effect(p, o) ==
    /\ paints[p].st = "live"
    /\ o # NULL => (hnd[o] = "live" /\ obj[o].kind = "effect")
    /\ obj' \in Outcomes(AttachCounts(obj, paints[p].effect, o),
                          AttachTouches(obj, paints[p].effect, o))
    /\ touched' = (touched \/ AttachTouches(obj, paints[p].effect, o))
    /\ paints' = [paints EXCEPT ![p].effect = o]
    /\ attached' = IF o = NULL THEN attached
                   ELSE [attached EXCEPT ![o] = @ \cup {p}]
    /\ UNCHANGED hnd

\* skiac_shader_destroy / skiac_path_effect_destroy: SkSafeUnref(handle).
skiac_shader_destroy(o) ==
    /\ hnd[o] = "live" /\ obj[o].kind = "shader"
    /\ obj' \in Outcomes(SkUnref(obj, o), Dangling(obj, o))
    /\ touched' = (touched \/ Dangling(obj, o))
    /\ hnd' = [hnd EXCEPT ![o] = "destroyed"]
    /\ UNCHANGED <<paints, attached>>

skiac_path_effect_destroy(o) ==
    /\ hnd[o] = "live" /\ obj[o].kind = "effect"
    /\ obj' \in Outcomes(SkUnref(obj, o), Dangling(obj, o))
    /\ touched' = (touched \/ Dangling(obj, o))
    /\ hnd' = [hnd EXCEPT ![o] = "destroyed"]
    /\ UNCHANGED <<paints, attached>>

DestroyTouches(t, p) ==
    \/ Dangling(t, paints[p].shader)
    \/ Dangling(SkUnref(t, paints[p].shader), paints[p].effect)

\* skiac_paint_destroy: setShader(nullptr); setPathEffect(nullptr); delete.
skiac_paint_destroy(p) ==
    /\ paints[p].st = "live"
    /\ obj' \in Outcomes(SkUnref(SkUnref(obj, paints[p].shader), paints[p].effect),
                          DestroyTouches(obj, p))
    /\ touched' = (touched \/ DestroyTouches(obj, p))
    /\ paints' = [paints EXCEPT ![p] = [st |-> "destroyed", shader |-> NULL, effect |-> NULL]]
    /\ UNCHANGED <<hnd, attached>>

(***************************************************************************)
(* Transforms: *_create_from(a,b,c,d,e,f) and *_get_data in the Qt adapter *)
(* and in the two versions of the Skia adapter.                            *)
(***************************************************************************)
MaxCoef == 1        \* small coefficients are drawn from -1 .. MaxCoef

\* (SkScalar)x: SkScalar is a 32-bit float, which holds every integer up to
\* 2^24 exactly; between 2^24 and 2^25 it holds the even integers, and an
\* odd one rounds to the neighbour whose mantissa is even (a multiple of 4).
SkScalarExact == 16777216

\* the doubles given to *_create_from: small ones and one that no float holds
Coefs    == (-1 .. MaxCoef) \cup {SkScalarExact + 1}
Backends == {"qt", "skia_cpp", "skia_bindings"}
NoMatrix == <<>>
NoData   == <<>>

SkScalar(x) ==
    IF Abs(x) <= SkScalarExact \/ x % 2 = 0 THEN x
    ELSE IF (x + 1) % 4 = 0 THEN x + 1 ELSE x - 1

\* QTransform(h11, h12, h21, h22, dx, dy): qreal (double) fields, no cast.
QTransform(a, b, c, d, e, f) ==
    [m11 |-> a, m12 |-> b, m21 |-> c, m22 |-> d, m31 |-> e, m32 |-> f]

\* qtc_qtransform_create_from
qtc_qtransform_create_from(a, b, c, d, e, f) == QTransform(a, b, c, d, e, f)

\* qtc_qtransform_get_data
qtc_qtransform_get_data(ts) == <<ts.m11, ts.m12, ts.m21, ts.m22, ts.m31, ts.m32>>

\* QTransform::map(x, y)
QTransformMap(ts, x, y) ==
    <<ts.m11 * x + ts.m21 * y + ts.m31, ts.m12 * x + ts.m22 * y + ts.m32>>

\* SkMatrix::setAll(scaleX, skewX, transX, skewY, scaleY, transY, p0, p1, p2)
SkMatrixSetAll(sx, kx, tx, ky, sy, ty, p0, p1, p2) ==
    [scaleX |-> sx, skewX |-> kx, transX |-> tx,
     skewY |-> ky, scaleY |-> sy, transY |-> ty,
     persp0 |-> p0, persp1 |-> p1, persp2 |-> p2]

\* SkMatrix::mapXY(x, y) of an affine matrix
SkMatrixMap(m, x, y) ==
    <<m.scaleX * x + m.skewX * y + m.transX, m.skewY * x + m.scaleY * y + m.transY>>

\* skiac_matrix_create_from, the same text in both Skia adapter versions
skiac_matrix_create_from(a, b, c, d, e, f) ==
    SkMatrixSetAll(SkScalar(a), SkScalar(c), SkScalar(e),
                   SkScalar(b), SkScalar(d), SkScalar(f), 0, 0, 1)

\* skiac_matrix_get_data of resvg-skia/skia-bindings
skiac_matrix_get_data(m) ==
    <<m.scaleX, m.skewY, m.skewX, m.scaleY, m.transX, m.transY>>

\* skiac_matrix_get_data of resvg-skia/cpp
skiac_matrix_get_data_cpp(m) ==
    <<m.scaleX, m.skewX, m.skewY, m.scaleY, m.transX, m.transY>>

\* where the adapter `be' sends the point (x, y) through its native matrix
NativeMap(be, x, y) ==
    IF be = "qt" THEN QTransformMap(native[be], x, y)
    ELSE SkMatrixMap(native[be], x, y)

\* SkMatrix::invert(&inverse): false, and inverse left as it was, when the
\* determinant is 0; else true, and inverse set to the adjugate over the
\* determinant.  A matrix is kept as the numerators `m' over `den'.
SkMatrixInvert(src, dst) ==
    LET det == src.scaleX * src.scaleY - src.skewX * src.skewY IN
    IF det = 0 THEN [ok |-> FALSE, m |-> dst.m, den |-> dst.den]
    ELSE [ok |-> TRUE, den |-> det,
          m |-> SkMatrixSetAll(src.scaleY, -src.skewX,
                               src.skewX * src.transY - src.scaleY * src.transX,
                               -src.skewY, src.scaleX,
                               src.skewY * src.transX - src.scaleX * src.transY,
                               0, 0, det)]

\* new SkMatrix(): the identity where SkMatrix has a constructor; where it
\* has none (the Skia of SKIA_VER_M58) the () zeroes every field.
SkMatrixNew ==
    {[m |-> SkMatrixSetAll(1, 0, 0, 0, 1, 0, 0, 0, 1), den |-> 1],
     [m |-> SkMatrixSetAll(0, 0, 0, 0, 0, 0, 0, 0, 0), den |-> 1]}

NoInverse == [st |-> "none", m |-> SkMatrixSetAll(0, 0, 0, 0, 0, 0, 0, 0, 0), den |-> 1]

\* skiac_matrix_create_inverse of resvg-skia/skia-bindings: the inverse, or
\* a null handle when invert() fails
skiac_matrix_create_inverse(src, fresh) ==
    LET inv == SkMatrixInvert(src, fresh) IN
    IF inv.ok THEN [st |-> "live", m |-> inv.m, den |-> inv.den]
    ELSE [NoInverse EXCEPT !.st = "null"]

\* skiac_matrix_create_inverse of resvg-skia/cpp: the result of invert()
\* is dropped ("TODO: check for non-invertability") and the new matrix is
\* returned as it is
skiac_matrix_create_inverse_cpp(src, fresh) ==
    LET inv == SkMatrixInvert(src, fresh) IN
    [st |-> "live", m |-> inv.m, den |-> inv.den]

MatrixInit ==
    /\ coef \in [1 .. 6 -> Coefs]
    /\ native = [be \in Backends |-> NoMatrix]
    /\ readback = [be \in Backends |-> NoData]
    /\ inverse = [be \in Backends |-> NoInverse]

MatrixIdle ==
    /\ coef = [i \in 1 .. 6 |-> 0]
    /\ native = [be \in Backends |-> NoMatrix]
    /\ readback = [be \in Backends |-> NoData]
    /\ inverse = [be \in Backends |-> NoInverse]

CreateFrom(be) ==
    /\ native[be] = NoMatrix
    /\ native' = [native EXCEPT ![be] =
          IF be = "qt"
          THEN qtc_qtransform_create_from(coef[1], coef[2], coef[3], coef[4], coef[5], coef[6])
          ELSE skiac_matrix_create_from(coef[1], coef[2], coef[3], coef[4], coef[5], coef[6])]
    /\ UNCHANGED <<coef, readback, inverse>>

GetData(be) ==
    /\ native[be] # NoMatrix
    /\ readback[be] = NoData
    /\ readback' = [readback EXCEPT ![be] =
          CASE be = "qt" -> qtc_qtransform_get_data(native[be])
            [] be = "skia_cpp" -> skiac_matrix_get_data_cpp(native[be])
            [] be = "skia_bindings" -> skiac_matrix_get_data(native[be])]
    /\ UNCHANGED <<coef, native, inverse>>

\* skiac_matrix_create_inverse on the matrix made by create_from, for
\* coefficients small enough for the determinant to be computed
CreateInverse(be) ==
    /\ be # "qt"
    /\ native[be] # NoMatrix
    /\ inverse[be].st = "none"
    /\ \A i \in 1 .. 6 : Abs(coef[i]) <= MaxCoef
    /\ \E fresh \in SkMatrixNew :
          inverse' = [inverse EXCEPT ![be] =
              IF be = "skia_cpp" THEN skiac_matrix_create_inverse_cpp(native[be], fresh)
              ELSE skiac_matrix_create_inverse(native[be], fresh)]
    /\ UNCHANGED <<coef, native, readback>>

(***************************************************************************)
(* SkCanvas: the matrix / clip stack behind skiac_canvas_* and the SkPaint *)
(* behind skiac_paint_set_*.  The two Skia adapter versions forward these  *)
(* calls to the same SkCanvas methods.                                     *)
(*                                                                         *)
(* SkCanvas keeps a stack of records (total matrix, clip); the drawing     *)
(* calls use the last one.  The clip is kept as the set of device points   *)
(* it lets through, the device being a grid of (GridMax+1)^2 points.       *)
(***************************************************************************)
MaxCalls      == 6  \* calls on the canvas in one run of SpecCanvas
MaxPaintCalls == 5  \* calls on the canvas and the paint in one run of SpecPaint
GridMax       == 1  \* device points are (0 .. GridMax) x (0 .. GridMax)

Device == (0 .. GridMax) \X (0 .. GridMax)

SkIdentity == SkMatrixSetAll(1, 0, 0, 0, 1, 0, 0, 0, 1)

\* SkMatrix::setConcat(A, B) for affine matrices: the product A * B, which
\* maps a point through B first and A second.
SkConcat(A, B) ==
    SkMatrixSetAll(A.scaleX * B.scaleX + A.skewX * B.skewY,
                   A.scaleX * B.skewX + A.skewX * B.scaleY,
                   A.scaleX * B.transX + A.skewX * B.transY + A.transX,
                   A.skewY * B.scaleX + A.scaleY * B.skewY,
                   A.skewY * B.skewX + A.scaleY * B.scaleY,
                   A.skewY * B.transX + A.scaleY * B.transY + A.transY,
                   0, 0, 1)

SkTranslate(dx, dy) == SkMatrixSetAll(1, 0, dx, 0, 1, dy, 0, 0, 1)
SkScale(sx, sy)     == SkMatrixSetAll(sx, 0, 0, 0, sy, 0, 0, 0, 1)

\* The device points inside the image of the rectangle (x, y, w, h) under
\* the matrix m: q is inside when its preimage p, with m p = q, has
\* x <= p.x < x + w and y <= p.y < y + h.  With det = the determinant of m,
\* det * p = adj(m) (q - t); a singular m flattens the rectangle to a line
\* or a point, which holds no area.
MappedRect(m, x, y, w, h) ==
    LET det == m.scaleX * m.scaleY - m.skewX * m.skewY
        U(q) == m.scaleY * (q[1] - m.transX) - m.skewX * (q[2] - m.transY)
        V(q) == m.scaleX * (q[2] - m.transY) - m.skewY * (q[1] - m.transX)
        Within(lo, hi, s) == IF det > 0 THEN det * lo <= s /\ s < det * hi
                             ELSE det * lo >= s /\ s > det * hi
    IN  IF det = 0 THEN {}
        ELSE {q \in Device : Within(x, x + w, U(q)) /\ Within(y, y + h, V(q))}

\* SkPaint(): opaque black, no anti-aliasing, kSrcOver, fill style, hairline
DefaultSkPaint ==
    [a |-> 255, r |-> 0, g |-> 0, b |-> 0, antiAlias |-> FALSE,
     blendMode |-> "SrcOver", style |-> "Fill", strokeWidth |-> 0]

Top == mcStack[Len(mcStack)]

MatrixClip(rec) == [matrix |-> rec.matrix, clip |-> rec.clip]

\* what a draw call issued now would work with
Observable == [matrix |-> Top.matrix, clip |-> Top.clip, paint |-> skpaint]

CanvasInit ==
    /\ mcStack = <<[matrix |-> SkIdentity, clip |-> Device]>>
    /\ skpaint = DefaultSkPaint
    /\ snap = <<>>
    /\ calls = 0
    /\ undid = <<>>

SetTop(rec) == mcStack' = [mcStack EXCEPT ![Len(mcStack)] = rec]

\* skiac_canvas_set_matrix: SkCanvas::setMatrix(*matrix)
skiac_canvas_set_matrix(m) ==
    /\ SetTop([Top EXCEPT !.matrix = m])
    /\ UNCHANGED <<skpaint, snap, undid>>

\* skiac_canvas_concat: SkCanvas::concat(*matrix), a pre-concatenation
skiac_canvas_concat(m) ==
    /\ SetTop([Top EXCEPT !.matrix = SkConcat(Top.matrix, m)])
    /\ UNCHANGED <<skpaint, snap, undid>>

\* skiac_canvas_scale: SkCanvas::scale((SkScalar)sx, (SkScalar)sy)
skiac_canvas_scale(sx, sy) ==
    /\ SetTop([Top EXCEPT !.matrix = SkConcat(Top.matrix, SkScale(SkScalar(sx), SkScalar(sy)))])
    /\ UNCHANGED <<skpaint, snap, undid>>

\* a translate that moves the saved records as well as the current one
skiac_canvas_translate_all(dx, dy) ==
    /\ mcStack' = [i \in 1 .. Len(mcStack) |->
                      [mcStack[i] EXCEPT !.matrix =
                          SkConcat(@, SkTranslate(SkScalar(dx), SkScalar(dy)))]]
    /\ UNCHANGED <<skpaint, snap, undid>>

\* skiac_canvas_translate: SkCanvas::translate((SkScalar)dx, (SkScalar)dy)
skiac_canvas_translate(dx, dy) ==
    /\ SetTop([Top EXCEPT !.matrix = SkConcat(Top.matrix, SkTranslate(SkScalar(dx), SkScalar(dy)))])
    /\ UNCHANGED <<skpaint, snap, undid>>

\* skiac_canvas_reset_matrix: SkCanvas::resetMatrix()
skiac_canvas_reset_matrix ==
    /\ SetTop([Top EXCEPT !.matrix = SkIdentity])
    /\ UNCHANGED <<skpaint, snap, undid>>

\* skiac_canvas_clip_rect: SkCanvas::clipRect(rect, true).  The clip op
\* defaults to kIntersect: the rectangle, mapped by the current matrix,
\* is intersected with the clip in force.
skiac_canvas_clip_rect(x, y, w, h) ==
    /\ SetTop([Top EXCEPT !.clip =
                  @ \cap MappedRect(Top.matrix, SkScalar(x), SkScalar(y), SkScalar(w), SkScalar(h))])
    /\ UNCHANGED <<skpaint, snap, undid>>

\* skiac_canvas_save: SkCanvas::save() pushes a copy of the current record.
skiac_canvas_save ==
    /\ mcStack' = Append(mcStack, Top)
    /\ snap' = Append(snap, Observable)
    /\ UNCHANGED <<skpaint, undid>>

\* a restore that reinstates the saved matrix and keeps the current clip
skiac_canvas_restore_matrix_only ==
    /\ mcStack' = IF Len(mcStack) > 1
                  THEN [SubSeq(mcStack, 1, Len(mcStack) - 1)
                           EXCEPT ![Len(mcStack) - 1].clip = Top.clip]
                  ELSE mcStack
    /\ snap' = IF Len(snap) > 0 THEN SubSeq(snap, 1, Len(snap) - 1) ELSE snap
    /\ undid' = IF Len(snap) > 0
                THEN Append(undid, [depth |-> Len(snap),
                                    matrix |-> Top'.matrix # Top.matrix,
                                    clip |-> Top'.clip # Top.clip,
                                    paint |-> skpaint # snap[Len(snap)].paint])
                ELSE undid
    /\ UNCHANGED skpaint

\* skiac_canvas_restore: SkCanvas::restore() pops the current record; with
\* nothing saved it does nothing.
skiac_canvas_restore ==
    /\ mcStack' = IF Len(mcStack) > 1 THEN SubSeq(mcStack, 1, Len(mcStack) - 1)
                  ELSE mcStack
    /\ snap' = IF Len(snap) > 0 THEN SubSeq(snap, 1, Len(snap) - 1) ELSE snap
    /\ undid' = IF Len(snap) > 0
                THEN Append(undid, [depth |-> Len(snap),
                                    matrix |-> Top'.matrix # Top.matrix,
                                    clip |-> Top'.clip # Top.clip,
                                    paint |-> skpaint # snap[Len(snap)].paint])
                ELSE undid
    /\ UNCHANGED skpaint

\* skiac_paint_set_color: SkPaint::setARGB(a, r, g, b)
skiac_paint_set_color(r, g, b, a) ==
    /\ skpaint' = [skpaint EXCEPT !.a = a, !.r = r, !.g = g, !.b = b]
    /\ UNCHANGED <<mcStack, snap, undid>>

\* skiac_paint_set_alpha: SkPaint::setAlpha(a)
skiac_paint_set_alpha(a) ==
    /\ skpaint' = [skpaint EXCEPT !.a = a]
    /\ UNCHANGED <<mcStack, snap, undid>>

\* skiac_paint_set_anti_alias
skiac_paint_set_anti_alias(aa) ==
    /\ skpaint' = [skpaint EXCEPT !.antiAlias = aa]
    /\ UNCHANGED <<mcStack, snap, undid>>

\* skiac_paint_set_blend_mode: blendModes_[blend_mode]
skiac_paint_set_blend_mode(mode) ==
    /\ skpaint' = [skpaint EXCEPT !.blendMode = mode]
    /\ UNCHANGED <<mcStack, snap, undid>>

\* skiac_paint_set_style
skiac_paint_set_style(style) ==
    /\ skpaint' = [skpaint EXCEPT !.style = style]
    /\ UNCHANGED <<mcStack, snap, undid>>

\* skiac_paint_set_stroke_width: SkPaint::setStrokeWidth((SkScalar)width)
skiac_paint_set_stroke_width(width) ==
    /\ skpaint' = [skpaint EXCEPT !.strokeWidth = SkScalar(width)]
    /\ UNCHANGED <<mcStack, snap, undid>>

\* the matrices behind the skiac_matrix handles given to set_matrix / concat
MatrixArgs == {skiac_matrix_create_from(0, 1, -1, 0, 1, 0),
               skiac_matrix_create_from(2, 0, 0, 1, 0, 1)}

ClipArgs == {<<0, 0, 1, 1>>, <<0, 0, 2, 1>>, <<1, 0, 1, 2>>}

(***************************************************************************)
(* Numbers of the Qt pen.  qreal values are kept exactly, as               *)
(* (n / d) * 10^e with d > 0 free of the factors 2 and 5, n and d coprime  *)
(* and n no multiple of 10, so that equal values have equal records and a  *)
(* width such as 1e-13 sits next to 1 and 4 without large integers.        *)
(***************************************************************************)
RECURSIVE Gcd(_, _)
Gcd(a, b) == IF b = 0 THEN a ELSE Gcd(b, a % b)

RECURSIVE Pow10(_)
Pow10(k) == IF k = 0 THEN 1 ELSE 10 * Pow10(k - 1)

Zero == [n |-> 0, d |-> 1, e |-> 0]

RECURSIVE Shift(_, _, _)
Shift(n, d, e) ==
    IF d % 2 = 0 THEN Shift(n * 5, d \div 2, e - 1)
    ELSE IF d % 5 = 0 THEN Shift(n * 2, d \div 5, e - 1)
    ELSE IF n % 10 = 0 THEN Shift(n \div 10, d, e + 1)
    ELSE [n |-> n, d |-> d, e |-> e]

Norm(n, d, e) ==
    IF n = 0 THEN Zero
    ELSE LET g == Gcd(Abs(n), d) IN Shift(n \div g, d \div g, e)

Dec(n, e) == Norm(n, 1, e)          \* the decimal n * 10^e
Num(k)    == Norm(k, 1, 0)          \* the integer k

Mul(x, y) == Norm(x.n * y.n, x.d * y.d, x.e + y.e)

\* x / y for y # 0
Div(x, y) ==
    Norm((IF y.n < 0 THEN -1 ELSE 1) * x.n * y.d, x.d * Abs(y.n), x.e - y.e)

\* n * 10^s <= d, for n, d > 0
RECURSIVE ScaledLE(_, _, _)
ScaledLE(n, s, d) ==
    IF s = 0 THEN n <= d
    ELSE IF s > 0 THEN (IF n > d THEN FALSE ELSE ScaledLE(n * 10, s - 1, d))
    ELSE (IF n <= d THEN TRUE ELSE ScaledLE(n, s + 1, d * 10))

AbsLE10(x, k) == x.n = 0 \/ ScaledLE(Abs(x.n), x.e - k, x.d)      \* |x| <= 10^k
AbsLT10(x, k) == x.n = 0 \/ ~ScaledLE(x.d, k - x.e, Abs(x.n))     \* |x| <  10^k

\* decimal digits over which two values are aligned to subtract them
AlignDigits == 8

\* x - y, for values whose exponents are at most AlignDigits apart
Sub(x, y) ==
    LET m == Min(x.e, y.e)
    IN  Norm(x.n * y.d * Pow10(x.e - m) - y.n * x.d * Pow10(y.e - m), x.d * y.d, m)

\* |x - y| < 10^k.  Values more than AlignDigits digits apart are not
\* subtracted: the smaller one changes the difference by less than one part
\* in 10^AlignDigits, so the larger one decides.
AbsDiffLT10(x, y, k) ==
    IF x = y THEN TRUE
    ELSE IF Abs(x.e - y.e) <= AlignDigits THEN AbsLT10(Sub(x, y), k)
    ELSE AbsLT10(IF x.e > y.e THEN x ELSE y, k)

\* qFuzzyIsNull(double d): qAbs(d) <= 0.000000000001
FuzzyNullExp == -12

qFuzzyIsNull(x) == AbsLE10(x, FuzzyNullExp)

(***************************************************************************)
(* Qt value types.  QColor, QBrush, QPen, QGradient and QImage are value   *)
(* classes: copying one gives an independent value (implicit sharing       *)
(* detaches on write, and QImage's copy constructor copies the pixels when *)
(* a painter is active on the source).                                     *)
(***************************************************************************)
QColor(r, g, b, a) == <<r, g, b, a>>
Black        == QColor(0, 0, 0, 255)
InvalidColor == <<>>                       \* QColor()

IdentityTransform == QTransform(1, 0, 0, 1, 0, 0)
NoGradient == [type |-> "none"]
\* QImage(): a null image.  `filled' tells whether the pixels were ever
\* written; `fill' is the colour they were filled with.
NullImage  == [null |-> TRUE, filled |-> FALSE, fill |-> <<>>]

\* QBrush(Qt::BrushStyle): black, no gradient, no texture
QBrushOfStyle(style) ==
    [style |-> style, color |-> Black, gradient |-> NoGradient,
     texture |-> NullImage, transform |-> IdentityTransform]

\* QBrush(const QColor &): solid
QBrushOfColor(c) == [QBrushOfStyle("SolidPattern") EXCEPT !.color = c]

\* QBrush(const QGradient &): the style follows the gradient's type, the
\* colour is QColor()
QBrushOfGradient(gr) ==
    [style |-> IF gr.type = "linear" THEN "LinearGradientPattern"
               ELSE "RadialGradientPattern",
     color |-> InvalidColor, gradient |-> gr,
     texture |-> NullImage, transform |-> IdentityTransform]

\* QBrush::setColor: the colour only; the style stays what it is
QBrushSetColor(br, c) == [br EXCEPT !.color = c]

\* QBrush::setTextureImage: a non-null image makes the brush a
\* TexturePattern brush holding a copy of the image, a null image makes it
\* a SolidPattern brush; colour and transform are kept, a gradient is not.
QBrushSetTextureImage(br, img) ==
    IF ~img.null
    THEN [br EXCEPT !.style = "TexturePattern", !.gradient = NoGradient, !.texture = img]
    ELSE [br EXCEPT !.style = "SolidPattern", !.gradient = NoGradient, !.texture = NullImage]

\* QBrush::setTransform
QBrushSetTransform(br, ts) == [br EXCEPT !.transform = ts]

\* QPen(): solid line of width 1, black, square cap, bevel join, miter limit 2
DefaultQPen ==
    [style |-> "SolidLine", width |-> Num(1), brush |-> QBrushOfColor(Black),
     cap |-> "SquareCap", join |-> "BevelJoin", miterLimit |-> Num(2),
     dashOffset |-> Zero, dashPattern |-> <<>>]

\* QPen(Qt::NoPen)
NoPen == [DefaultQPen EXCEPT !.style = "NoPen"]

\* QPen::setWidthF: a negative width is refused, a width within 1e-8 of the
\* current one is not stored
WidthEpsExp == -8

QPenSetWidthF(pen, w) ==
    IF w.n < 0 \/ AbsDiffLT10(pen.width, w, WidthEpsExp) THEN pen
    ELSE [pen EXCEPT !.width = w]

\* QPen::setDashOffset: an offset that compares equal to the stored one is
\* ignored (qFuzzyCompare, which tells apart any two of the offsets used
\* here); otherwise the offset is stored, and a pen that had no custom dash
\* pattern becomes a CustomDashLine pen with the pattern of its old style
QPenSetDashOffset(pen, off) ==
    IF off = pen.dashOffset THEN pen
    ELSE [pen EXCEPT !.dashOffset = off, !.style = "CustomDashLine"]

\* QPen::setDashPattern: an empty pattern is ignored; a pattern of odd
\* length gets a 1 appended
QPenSetDashPattern(pen, pattern) ==
    IF pattern = <<>> THEN pen
    ELSE [pen EXCEPT !.style = "CustomDashLine",
                     !.dashPattern = IF Len(pattern) % 2 = 1
                                     THEN Append(pattern, Num(1)) ELSE pattern]

\* the divisor qtc_qpen_set_dash_offset uses: w == 0 ? 1 : w
DashOffsetDivisor(w) == IF w = Zero THEN Num(1) ELSE w

\* the divisor qtc_qpen_set_dash_array uses: qFuzzyIsNull(w) ? 1 : w
DashArrayDivisor(w) == IF qFuzzyIsNull(w) THEN Num(1) ELSE w

\* a set_width that re-derives the stored dash values for the new width
PenSetWidthRescaling(pen, width) ==
    LET p == QPenSetWidthF(pen, width)
    IN  [p EXCEPT !.dashPattern =
            [i \in 1 .. Len(pen.dashPattern) |->
                Div(Mul(pen.dashPattern[i], pen.width), DashArrayDivisor(p.width))]]

\* the value of the QPen after qtc_qpen_set_width(pen, width)
PenSetWidth(pen, width) == QPenSetWidthF(pen, width)

\* the value of the QPen after qtc_qpen_set_dash_offset(pen, offset)
PenSetDashOffset(pen, offset) ==
    QPenSetDashOffset(pen, Div(offset, DashOffsetDivisor(pen.width)))

\* the value of the QPen after qtc_qpen_set_dash_array(pen, array, len)
PenSetDashArray(pen, array) ==
    QPenSetDashPattern(pen, [i \in 1 .. Len(array) |->
                                Div(array[i], DashArrayDivisor(pen.width))])

\* the dash lengths a stroke with this pen shows: Qt takes the pattern in
\* units of the pen width
Rendered(pen) == [i \in 1 .. Len(pen.dashPattern) |-> Mul(pen.dashPattern[i], pen.width)]

MaxPenCalls == 3    \* setter calls on the pen in one run of SpecPen
MaxDashLen  == 2    \* entries of a dash array

\* the arguments of the calls: widths that are zero, negligible, ordinary
\* and negative; dash arrays of equal entries of every length, and one of
\* unequal entries
WidthArgs  == {Zero, Dec(1, -13), Num(1), Num(2), Num(4), Num(-2)}
OffsetArgs == {Zero, Num(2)}
DashArgs   == {[i \in 1 .. k |-> v] : k \in 0 .. MaxDashLen, v \in {Num(2), Num(4)}}
                 \cup {<<Num(2), Num(4)>>}

PenInit ==
    /\ qpen = [live |-> TRUE, pen |-> DefaultQPen]      \* qtc_qpen_create
    /\ penLog = <<>>

Logged(op, arg) == penLog' = Append(penLog, [op |-> op, arg |-> arg, width |-> qpen.pen.width])

qtc_qpen_set_width(width) ==
    /\ qpen.live
    /\ qpen' = [qpen EXCEPT !.pen = PenSetWidth(@, width)]
    /\ Logged("set_width", width)

qtc_qpen_set_dash_offset(offset) ==
    /\ qpen.live
    /\ qpen' = [qpen EXCEPT !.pen = PenSetDashOffset(@, offset)]
    /\ Logged("set_dash_offset", offset)

qtc_qpen_set_dash_array(array) ==
    /\ qpen.live
    /\ qpen' = [qpen EXCEPT !.pen = PenSetDashArray(@, array)]
    /\ Logged("set_dash_array", array)

(***************************************************************************)
(* The Qt objects behind the handles: gradients, image, brush, pen and     *)
(* painter.  Each handle points to one heap object (`new QBrush(...)');    *)
(* `live' is FALSE after the handle's destroy call.                        *)
(***************************************************************************)
MaxQtCalls == 4     \* calls in one run of SpecQt

\* QGradient::setColorAt: a position outside 0 .. 1 is refused; the stops
\* are kept sorted by position and a stop at an existing position is
\* replaced.  Positions are in tenths.
RECURSIVE InsertStop(_, _, _)
InsertStop(stops, pos, color) ==
    IF stops = <<>> THEN <<<<pos, color>>>>
    ELSE IF Head(stops)[1] < pos THEN <<Head(stops)>> \o InsertStop(Tail(stops), pos, color)
    ELSE IF Head(stops)[1] = pos THEN <<<<pos, color>>>> \o Tail(stops)
    ELSE <<<<pos, color>>>> \o stops

QGradientSetColorAt(gr, pos, color) ==
    IF pos > 10 \/ pos < 0 THEN gr
    ELSE [gr EXCEPT !.stops = InsertStop(@, pos, color)]

\* qtc_qlineargradient_create(x1, y1, x2, y2)
QLinearGradient(x1, y1, x2, y2) ==
    [type |-> "linear", coords |-> <<x1, y1, x2, y2>>, stops |-> <<>>,
     spread |-> "PadSpread", interpolation |-> "ComponentInterpolation"]

\* qtc_qradialgradient_create(cx, cy, fx, fy, r): QRadialGradient(cx, cy, r, fx, fy)
QRadialGradient(cx, cy, fx, fy, r) ==
    [type |-> "radial", coords |-> <<cx, cy, r, fx, fy>>, stops |-> <<>>,
     spread |-> "PadSpread", interpolation |-> "ComponentInterpolation"]

\* QPainter after qtc_qpainter_create: begin(), NoPen, NoBrush, both hints on
NewQPainter ==
    [pen |-> NoPen, brush |-> QBrushOfStyle("NoBrush"),
     antialiasing |-> TRUE, smoothPixmapTransform |-> TRUE,
     clipping |-> FALSE, clip |-> {}]

QtInit ==
    /\ qlg = [live |-> TRUE, gr |-> QLinearGradient(0, 0, 1, 0)]
    /\ qrg = [live |-> TRUE, gr |-> QRadialGradient(0, 0, 0, 0, 1)]
    /\ qimg = [live |-> TRUE, img |-> [null |-> FALSE, filled |-> FALSE, fill |-> <<>>]]
    /\ qbrush = [live |-> TRUE, brush |-> QBrushOfStyle("SolidPattern")]    \* qtc_qbrush_create
    /\ qpainter = NewQPainter
    /\ lastKind = "none"
    /\ qtCalls = 0

\* ---- gradients
\* a set_color_at that shows through a brush made from the gradient, as
\* it would if the brush kept a reference to the gradient
qtc_qlineargradient_set_color_at_shared(offset, r, g, b, a) ==
    /\ qlg.live
    /\ qlg' = [qlg EXCEPT !.gr = QGradientSetColorAt(@, offset, QColor(r, g, b, a))]
    /\ qbrush' = IF qbrush.brush.gradient.type = "linear"
                 THEN [qbrush EXCEPT !.brush.gradient =
                          QGradientSetColorAt(@, offset, QColor(r, g, b, a))]
                 ELSE qbrush
    /\ UNCHANGED <<qrg, qimg, qpainter, lastKind>>

qtc_qlineargradient_set_color_at(offset, r, g, b, a) ==
    /\ qlg.live
    /\ qlg' = [qlg EXCEPT !.gr = QGradientSetColorAt(@, offset, QColor(r, g, b, a))]
    /\ UNCHANGED <<qrg, qimg, qbrush, qpainter, lastKind>>

qtc_qlineargradient_set_spread(spread) ==
    /\ qlg.live
    /\ qlg' = [qlg EXCEPT !.gr.spread = spread]
    /\ UNCHANGED <<qrg, qimg, qbrush, qpainter, lastKind>>

qtc_qlineargradient_destroy ==
    /\ qlg.live
    /\ qlg' = [qlg EXCEPT !.live = FALSE]
    /\ UNCHANGED <<qrg, qimg, qbrush, qpainter, lastKind>>

qtc_qradialgradient_set_color_at(offset, r, g, b, a) ==
    /\ qrg.live
    /\ qrg' = [qrg EXCEPT !.gr = QGradientSetColorAt(@, offset, QColor(r, g, b, a))]
    /\ UNCHANGED <<qlg, qimg, qbrush, qpainter, lastKind>>

qtc_qradialgradient_set_spread(spread) ==
    /\ qrg.live
    /\ qrg' = [qrg EXCEPT !.gr.spread = spread]
    /\ UNCHANGED <<qlg, qimg, qbrush, qpainter, lastKind>>

qtc_qradialgradient_destroy ==
    /\ qrg.live
    /\ qrg' = [qrg EXCEPT !.live = FALSE]
    /\ UNCHANGED <<qlg, qimg, qbrush, qpainter, lastKind>>

\* ---- image
qtc_qimage_fill(r, g, b, a) ==
    /\ qimg.live
    /\ qimg' = [qimg EXCEPT !.img.filled = TRUE, !.img.fill = QColor(r, g, b, a)]
    /\ UNCHANGED <<qlg, qrg, qbrush, qpainter, lastKind>>

qtc_qimage_destroy ==
    /\ qimg.live
    /\ qimg' = [qimg EXCEPT !.live = FALSE]
    /\ UNCHANGED <<qlg, qrg, qbrush, qpainter, lastKind>>

\* ---- brush
qtc_qbrush_set_color(r, g, b, a) ==
    /\ qbrush.live
    /\ qbrush' = [qbrush EXCEPT !.brush = QBrushSetColor(@, QColor(r, g, b, a))]
    /\ lastKind' = "color"
    /\ UNCHANGED <<qlg, qrg, qimg, qpainter>>

\* *brush = QBrush(*lg)
qtc_qbrush_set_linear_gradient ==
    /\ qbrush.live /\ qlg.live
    /\ qbrush' = [qbrush EXCEPT !.brush = QBrushOfGradient(qlg.gr)]
    /\ lastKind' = "linear"
    /\ UNCHANGED <<qlg, qrg, qimg, qpainter>>

\* *brush = QBrush(*rg)
qtc_qbrush_set_radial_gradient ==
    /\ qbrush.live /\ qrg.live
    /\ qbrush' = [qbrush EXCEPT !.brush = QBrushOfGradient(qrg.gr)]
    /\ lastKind' = "radial"
    /\ UNCHANGED <<qlg, qrg, qimg, qpainter>>

qtc_qbrush_set_pattern ==
    /\ qbrush.live /\ qimg.live
    /\ qbrush' = [qbrush EXCEPT !.brush = QBrushSetTextureImage(@, qimg.img)]
    /\ lastKind' = "pattern"
    /\ UNCHANGED <<qlg, qrg, qimg, qpainter>>

qtc_qbrush_set_transform(ts) ==
    /\ qbrush.live
    /\ qbrush' = [qbrush EXCEPT !.brush = QBrushSetTransform(@, ts)]
    /\ UNCHANGED <<qlg, qrg, qimg, qpainter, lastKind>>

qtc_qbrush_destroy ==
    /\ qbrush.live
    /\ qbrush' = [qbrush EXCEPT !.live = FALSE]
    /\ UNCHANGED <<qlg, qrg, qimg, qpainter, lastKind>>

\* ---- pen (qtc_qpen_set_width and the dash setters are above)
\* QPen::setColor replaces the pen's brush by QBrush(color)
qtc_qpen_set_color(r, g, b, a) ==
    /\ qpen.live
    /\ qpen' = [qpen EXCEPT !.pen.brush = QBrushOfColor(QColor(r, g, b, a))]
    /\ Logged("set_color", QColor(r, g, b, a))

qtc_qpen_set_brush ==
    /\ qpen.live /\ qbrush.live
    /\ qpen' = [qpen EXCEPT !.pen.brush = qbrush.brush]
    /\ Logged("set_brush", <<>>)

qtc_qpen_set_line_cap(s) ==
    /\ qpen.live
    /\ qpen' = [qpen EXCEPT !.pen.cap = s]
    /\ Logged("set_line_cap", s)

qtc_qpen_set_line_join(s) ==
    /\ qpen.live
    /\ qpen' = [qpen EXCEPT !.pen.join = s]
    /\ Logged("set_line_join", s)

qtc_qpen_set_miter_limit(limit) ==
    /\ qpen.live
    /\ qpen' = [qpen EXCEPT !.pen.miterLimit = limit]
    /\ Logged("set_miter_limit", limit)

qtc_qpen_destroy ==
    /\ qpen.live
    /\ qpen' = [qpen EXCEPT !.live = FALSE]
    /\ Logged("destroy", <<>>)

\* ---- painter
qtc_qpainter_set_pen ==
    /\ qpen.live
    /\ qpainter' = [qpainter EXCEPT !.pen = qpen.pen]
    /\ UNCHANGED <<qlg, qrg, qimg, qbrush, lastKind>>

\* a reset that leaves the painter with the pen a QPainter starts with
qtc_qpainter_reset_pen_default ==
    /\ qpainter' = [qpainter EXCEPT !.pen = DefaultQPen]
    /\ UNCHANGED <<qlg, qrg, qimg, qbrush, lastKind>>

qtc_qpainter_reset_pen ==
    /\ qpainter' = [qpainter EXCEPT !.pen = NoPen]
    /\ UNCHANGED <<qlg, qrg, qimg, qbrush, lastKind>>

qtc_qpainter_set_brush ==
    /\ qbrush.live
    /\ qpainter' = [qpainter EXCEPT !.brush = qbrush.brush]
    /\ UNCHANGED <<qlg, qrg, qimg, qbrush, lastKind>>

qtc_qpainter_reset_brush ==
    /\ qpainter' = [qpainter EXCEPT !.brush = QBrushOfStyle("NoBrush")]
    /\ UNCHANGED <<qlg, qrg, qimg, qbrush, lastKind>>

(***************************************************************************)
(* Images and surfaces: creation, copy and save.  A canvas is a record     *)
(* [st, w, h, premul, px]: st is "none" before any call, "null" for a null *)
(* handle and "live" for a handle to a native object; px gives the colour  *)
(* of each pixel, as straight (r, g, b, a) whatever the storage format.    *)
(***************************************************************************)
MaxDim       == 2  \* canvases are at most MaxDim x MaxDim pixels
MaxMakeCalls == 2  \* fallible calls in one run of SpecMake

ImgBackends == {"qt", "skia"}
Transparent == QColor(0, 0, 0, 0)
\* what a buffer that was never written may hold: zeroes, or stale bytes
Uninitialized == {Transparent, QColor(205, 205, 205, 205)}

Cells(w, h) == (0 .. w - 1) \X (0 .. h - 1)

NoImage == [st |-> "none", w |-> 0, h |-> 0, premul |-> FALSE,
            px |-> [c \in Cells(0, 0) |-> Transparent]]

\* source-over of the colour s on the colour d
SrcOver(s, d) ==
    LET a == s[4] + (d[4] * (255 - s[4])) \div 255
        Ch(k) == IF a = 0 THEN 0
                 ELSE (s[k] * s[4] * 255 + d[k] * d[4] * (255 - s[4])) \div (a * 255)
    IN  <<Ch(1), Ch(2), Ch(3), a>>

\* QImage(width, height, format): a null image when a side is 0 or the
\* buffer cannot be allocated; else a buffer that is not initialised
QImage(w, h, premul, alloc, bytes) ==
    IF w = 0 \/ h = 0 \/ ~alloc THEN [NoImage EXCEPT !.st = "null"]
    ELSE [st |-> "live", w |-> w, h |-> h, premul |-> premul,
          px |-> [c \in Cells(w, h) |-> bytes]]

\* SkSurface::MakeRaster(SkImageInfo::Make(width, height, kN32, alphaType)):
\* null when a side is not positive or the buffer cannot be allocated; else
\* a surface over a zeroed buffer
SkSurfaceMakeRaster(w, h, premul, alloc) ==
    IF w <= 0 \/ h <= 0 \/ ~alloc THEN [NoImage EXCEPT !.st = "null"]
    ELSE [st |-> "live", w |-> w, h |-> h, premul |-> premul,
          px |-> [c \in Cells(w, h) |-> Transparent]]

ImgInit ==
    /\ image = [be \in ImgBackends |-> NoImage]
    /\ copied = [be \in ImgBackends |-> NoImage]
    /\ live = [be \in ImgBackends |-> 0]
    /\ mkLog = <<>>
    /\ aborted = FALSE

\* the record of a call: its arguments, what the toolkit yielded, what the call returned
\* ("handle", "null", "true", "false", or "abort" when the process died) and
\* the number of live native image objects before and after it
Called(fn, be, args, yielded, ret, before, after) ==
    /\ mkLog' = Append(mkLog, [fn |-> fn, be |-> be, args |-> args, yielded |-> yielded,
                               ret |-> ret, before |-> before, after |-> after])
    /\ aborted' = (ret = "abort")

\* what a call through a null pointer can do: kill the process, or go on
\* and hand the null pointer back
NullDeref == {"abort", "null"}

\* qtc_qimage_create_rgba / qtc_qimage_create_rgba_premultiplied: the
\* QImage object is allocated with new; when it is null, 0 is returned and
\* the object is not deleted.
qtc_qimage_create_rgba(w, h, premul) ==
    \E alloc \in BOOLEAN, bytes \in Uninitialized :
        LET img == QImage(w, h, premul, alloc, bytes) IN
        /\ image' = [image EXCEPT !["qt"] = img]
        /\ live' = [live EXCEPT !["qt"] = @ + 1]
        /\ Called("create", "qt", <<w, h>>, img.st = "live",
                  IF img.st = "live" THEN "handle" ELSE "null", live["qt"], live["qt"] + 1)
        /\ UNCHANGED copied

\* skiac_surface_create_rgba / skiac_surface_create_rgba_premultiplied:
\* skiac_surface_create returns surface.release(), null when MakeRaster
\* made nothing.
skiac_surface_create_rgba(w, h, premul) ==
    \E alloc \in BOOLEAN :
        LET surface == SkSurfaceMakeRaster(w, h, premul, alloc)
            after == IF surface.st = "live" THEN live["skia"] + 1 ELSE live["skia"] IN
        /\ image' = [image EXCEPT !["skia"] = surface]
        /\ live' = [live EXCEPT !["skia"] = after]
        /\ Called("create", "skia", <<w, h>>, surface.st = "live",
                  IF surface.st = "live" THEN "handle" ELSE "null", live["skia"], after)
        /\ UNCHANGED copied

\* the pixels of the w x h region of src at (x, y); outside src, transparent
Region(src, x, y, w, h) ==
    [c \in Cells(w, h) |->
        IF <<c[1] + x, c[2] + y>> \in Cells(src.w, src.h)
        THEN SrcOver(src.px[<<c[1] + x, c[2] + y>>], Transparent)
        ELSE Transparent]

\* skiac_surface_copy_rgba: a new unpremultiplied surface, on whose canvas
\* the source draws itself at (-x, -y); copy->getCanvas() is called
\* whether or not the surface was made.
skiac_surface_copy_rgba(x, y, w, h) ==
    /\ image["skia"].st = "live"
    /\ \E alloc \in BOOLEAN :
        LET copy == SkSurfaceMakeRaster(w, h, FALSE, alloc) IN
        IF copy.st = "live"
        THEN /\ copied' = [copied EXCEPT !["skia"] =
                              [copy EXCEPT !.px = Region(image["skia"], x, y, w, h)]]
             /\ live' = [live EXCEPT !["skia"] = @ + 1]
             /\ Called("copy", "skia", <<x, y, w, h>>, TRUE, "handle", live["skia"], live["skia"] + 1)
             /\ UNCHANGED image
        ELSE \E out \in NullDeref :
             /\ copied' = [copied EXCEPT !["skia"] = copy]
             /\ Called("copy", "skia", <<x, y, w, h>>, FALSE, out, live["skia"], live["skia"])
             /\ UNCHANGED <<image, live>>

\* qtc_qimage_copy: new QImage(QImage::copy(x, y, width, height)); the copy
\* has the format of the source, and an empty rectangle gives a handle to
\* a null image.
qtc_qimage_copy(x, y, w, h) ==
    /\ image["qt"].st = "live"
    /\ copied' = [copied EXCEPT !["qt"] =
                     IF w = 0 \/ h = 0 THEN [NoImage EXCEPT !.st = "live"]
                     ELSE [st |-> "live", w |-> w, h |-> h, premul |-> image["qt"].premul,
                           px |-> Region(image["qt"], x, y, w, h)]]
    /\ live' = [live EXCEPT !["qt"] = @ + 1]
    /\ Called("copy", "qt", <<x, y, w, h>>, TRUE, "handle", live["qt"], live["qt"] + 1)
    /\ UNCHANGED image

\* skiac_shader_make_linear_gradient / _two_point_conical_gradient:
\* SkGradientShader::Make*(...).release(), then shader->ref() whether or
\* not a shader was made; the toolkit makes none for fewer than one stop.
skiac_shader_make_gradient(fn, count) ==
    /\ IF count >= 1 THEN Called(fn, "skia", <<count>>, TRUE, "handle", live["skia"], live["skia"])
       ELSE \E out \in NullDeref : Called(fn, "skia", <<count>>, FALSE, out, live["skia"], live["skia"])
    /\ UNCHANGED <<image, copied, live>>

\* skiac_path_effect_make_dash_path, when SkDashPathEffect::Make can fail:
\* it makes no effect for fewer than two intervals or an odd number of
\* them; effect->ref() is called whether or not an effect was made.
skiac_path_effect_make_dash_path_of(count) ==
    /\ IF count >= 2 /\ count % 2 = 0
       THEN Called("make_dash_path", "skia", <<count>>, TRUE, "handle", live["skia"], live["skia"])
       ELSE \E out \in NullDeref :
               Called("make_dash_path", "skia", <<count>>, FALSE, out, live["skia"], live["skia"])
    /\ UNCHANGED <<image, copied, live>>

\* skiac_surface_save in its three builds.  "skia_m58" (skia-bindings with
\* SKIA_VER_M58) and "skia_cpp" (resvg-skia/cpp) return true when
\* image->encode() gave data and stream.write() took it; "skia"
\* (skia-bindings otherwise) returns true when peekPixels() succeeds, as it
\* does on a raster surface, and drops the result of SkPngEncoder::Encode.
skiac_surface_save(build, encodes, writes) ==
    /\ image["skia"].st = "live"
    /\ Called("save", build, <<>>, encodes /\ writes,
              IF build = "skia" \/ (encodes /\ writes) THEN "true" ELSE "false",
              live["skia"], live["skia"])
    /\ UNCHANGED <<image, copied, live>>

\* qtc_qimage_save: QImageWriter::write(), true when the image was written
qtc_qimage_save(encodes, writes) ==
    /\ image["qt"].st = "live"
    /\ Called("save", "qt", <<>>, encodes /\ writes,
              IF encodes /\ writes THEN "true" ELSE "false", live["qt"], live["qt"])
    /\ UNCHANGED <<image, copied, live>>

\* the sides given to the create calls
DimArgs == {0, 1, MaxDim}
\* the rectangles given to the copy calls
CopyArgs == {<<0, 0, 1, 1>>, <<1, 0, 1, 1>>, <<0, 0, 0, 1>>, <<1, 1, MaxDim, MaxDim>>}

(***************************************************************************)
(* Paths: QPainterPath behind qtc_qpainterpath_*, SkPath behind            *)
(* skiac_path_*.  A path is its fill rule and the elements added to it.    *)
(***************************************************************************)
MaxPathLen == 3  \* elements added to the paths in one run of SpecPath

\* qtc_qpainterpath_create: new QPainterPath(), whose fill rule is
\* Qt::OddEvenFill; skiac_path_create: new SkPath(), whose fill type is
\* kWinding_FillType
PathCreate(be) ==
    [fillRule |-> IF be = "qt" THEN "OddEvenFill" ELSE "Winding", elems |-> <<>>]

PathInit ==
    /\ path = [be \in ImgBackends |-> PathCreate(be)]
    /\ ruleSet = [be \in ImgBackends |-> FALSE]

\* the coordinates as the backend takes them: qreal for Qt, (SkScalar) casts
\* for Skia
PathCoords(be, pts) == IF be = "qt" THEN pts ELSE [i \in DOMAIN pts |-> SkScalar(pts[i])]

\* a segment added to a path that holds no point yet starts at (0, 0)
PathAdd(p, be, op, pts) ==
    LET start == IF op # "MoveTo" /\ p.elems = <<>>
                 THEN <<[op |-> "MoveTo", pts |-> <<0, 0>>]>> ELSE <<>>
    IN  [p EXCEPT !.elems = @ \o start \o <<[op |-> op, pts |-> PathCoords(be, pts)]>>]

\* closing a path that holds nothing adds nothing
PathClose(p) ==
    IF p.elems = <<>> THEN p ELSE [p EXCEPT !.elems = Append(@, [op |-> "Close", pts |-> <<>>])]

\* qtc_qpainterpath_move_to / skiac_path_move_to
path_move_to(be, x, y) ==
    /\ path' = [path EXCEPT ![be] = PathAdd(@, be, "MoveTo", <<x, y>>)]
    /\ UNCHANGED ruleSet

\* qtc_qpainterpath_line_to / skiac_path_line_to
path_line_to(be, x, y) ==
    /\ path' = [path EXCEPT ![be] = PathAdd(@, be, "LineTo", <<x, y>>)]
    /\ UNCHANGED ruleSet

\* qtc_qpainterpath_curve_to / skiac_path_cubic_to
path_curve_to(be, x1, y1, x2, y2, x, y) ==
    /\ path' = [path EXCEPT ![be] = PathAdd(@, be, "CubicTo", <<x1, y1, x2, y2, x, y>>)]
    /\ UNCHANGED ruleSet

\* qtc_qpainterpath_close_path / skiac_path_close
path_close(be) ==
    /\ path' = [path EXCEPT ![be] = PathClose(@)]
    /\ UNCHANGED ruleSet

\* qtc_qpainterpath_set_fill_rule(FillRule) / skiac_path_set_fill_type(FillType)
path_set_fill_rule(be, rule) ==
    /\ path' = [path EXCEPT ![be].fillRule = rule]
    /\ ruleSet' = [ruleSet EXCEPT ![be] = TRUE]

\* the fill rules of each backend's enum, the non-zero one first
FillRules(be) == IF be = "qt" THEN <<"WindingFill", "OddEvenFill">> ELSE <<"Winding", "EvenOdd">>

(***************************************************************************)
(* Drawing and clipping with a QPainter.  A pixel is the cell (i, j) of    *)
(* the device grid; a shape covers the pixels whose centre lies inside it, *)
(* the partial cover of anti-aliased edges is not modelled.  The painter's *)
(* transform stays the identity.                                           *)
(***************************************************************************)
MaxDrawCalls == 4  \* calls in one run of SpecDraw
MaxClipCalls == 3  \* calls in one run of SpecClip

\* the segments of the path p as <<index, from, to>>; with `closing', the
\* segments that close each open subpath for filling as well
PathEdges(p, closing) ==
    LET n == Len(p.elems)
        IsMove(i) == p.elems[i].op = "MoveTo"
        Start(i) == p.elems[CHOOSE k \in 1 .. i :
                               IsMove(k) /\ \A j \in (k + 1) .. i : ~IsMove(j)].pts
        End(i) == IF p.elems[i].op = "Close" THEN Start(i)
                  ELSE LET q == p.elems[i].pts IN <<q[Len(q) - 1], q[Len(q)]>>
    IN  {<<i, End(i - 1), IF p.elems[i].op = "Close" THEN Start(i) ELSE End(i)>> :
            i \in {k \in 2 .. n : ~IsMove(k)}}
        \cup (IF closing
              THEN {<<i, End(i - 1), Start(i - 1)>> : i \in {k \in 2 .. n : IsMove(k)}}
                   \cup (IF n > 0 THEN {<<n + 1, End(n), Start(n)>>} ELSE {})
              ELSE {})

\* +1 / -1 when the segment e crosses, upwards / downwards, the ray that
\* leaves the centre of the pixel c to the right; else 0
Crossing(e, c) ==
    LET a == e[2]
        b == e[3]
        dy == b[2] - a[2]
        side == (2 * a[1] - 2 * c[1] - 1) * dy + (2 * c[2] + 1 - 2 * a[2]) * (b[1] - a[1])
    IN  IF a[2] <= c[2] /\ c[2] < b[2] /\ side > 0 THEN 1
        ELSE IF b[2] <= c[2] /\ c[2] < a[2] /\ side < 0 THEN -1
        ELSE 0

\* the pixels of `grid' inside the path p, by its fill rule
FillCells(p, grid) ==
    LET E == PathEdges(p, TRUE)
        Up(c) == Cardinality({e \in E : Crossing(e, c) = 1})
        Down(c) == Cardinality({e \in E : Crossing(e, c) = -1})
    IN  {c \in grid : IF p.fillRule \in {"WindingFill", "Winding"} THEN Up(c) # Down(c)
                      ELSE (Up(c) + Down(c)) % 2 = 1}

\* the pixels of `grid' touched by a stroke of the given width along the
\* segments of p (exact for horizontal and vertical segments)
StrokeCells(p, width, grid) ==
    LET Lo(u, v) == IF u < v THEN u ELSE v
        Hi(u, v) == IF u < v THEN v ELSE u
    IN  {c \in grid : \E e \in PathEdges(p, FALSE) :
            /\ 2 * c[1] < 2 * Hi(e[2][1], e[3][1]) + width
            /\ 2 * c[1] + 2 > 2 * Lo(e[2][1], e[3][1]) - width
            /\ 2 * c[2] < 2 * Hi(e[2][2], e[3][2]) + width
            /\ 2 * c[2] + 2 > 2 * Lo(e[2][2], e[3][2]) - width}

\* the width of a pen's stroke in whole pixels, one pixel at least
StrokeWidth(pen) ==
    LET v == IF pen.width.e >= 0 THEN (pen.width.n * Pow10(pen.width.e)) \div pen.width.d
             ELSE 0
    IN  IF v < 1 THEN 1 ELSE v

\* QRectF(x, y, w, h) as the path QPainter::drawRect and setClipRect make of it
RectPath(x, y, w, h) ==
    PathClose(PathAdd(PathAdd(PathAdd(PathAdd(PathCreate("qt"),
        "qt", "MoveTo", <<x, y>>), "qt", "LineTo", <<x + w, y>>),
        "qt", "LineTo", <<x + w, y + h>>), "qt", "LineTo", <<x, y + h>>))

\* the pixels QPainter::drawPath(p) fills with the brush and strokes with
\* the pen, inside the clip
FilledBy(painter, p, grid) ==
    IF painter.brush.style = "NoBrush" THEN {}
    ELSE FillCells(p, grid) \cap (IF painter.clipping THEN painter.clip ELSE grid)

StrokedBy(painter, p, grid) ==
    IF painter.pen.style = "NoPen" THEN {}
    ELSE StrokeCells(p, StrokeWidth(painter.pen), grid)
            \cap (IF painter.clipping THEN painter.clip ELSE grid)

\* QPainter::drawPath(p) on the image: the fill first, the stroke over it
QPainterDrawPath(img, painter, p) ==
    LET grid == Cells(img.w, img.h)
        Filled(c) == IF c \in FilledBy(painter, p, grid)
                     THEN SrcOver(painter.brush.color, img.px[c]) ELSE img.px[c]
    IN  [img EXCEPT !.px = [c \in grid |->
            IF c \in StrokedBy(painter, p, grid)
            THEN SrcOver(painter.pen.brush.color, Filled(c)) ELSE Filled(c)]]

\* the history of the painter: the last pen, brush and clip calls ("create"
\* when there was none), the region given to the last clip call and the
\* number of clip calls, the last call of all, the pixels covered by the
\* draw calls so far and by the fill and the stroke of the last one, and
\* the number of calls
PaintInit ==
    paintHist = [pen |-> "create", brush |-> "create", clip |-> "create", region |-> {},
                 clips |-> 0, last |-> "create", painted |-> {}, lastFill |-> {},
                 lastStroke |-> {}, lastColor |-> Transparent, calls |-> 0]

\* a call other than a draw call enters the history
Noted(field, call, region) ==
    paintHist' = [paintHist EXCEPT ![field] = call, !.last = call, !.calls = @ + 1,
                     !.region = IF field = "clip" THEN region ELSE @,
                     !.clips = IF field = "clip" THEN @ + 1 ELSE @]

\* qtc_qpainter_draw_path
qtc_qpainter_draw_path(p) ==
    /\ image["qt"].st = "live"
    /\ qpainter.brush.style \in {"NoBrush", "SolidPattern"}
    /\ image' = [image EXCEPT !["qt"] = QPainterDrawPath(@, qpainter, p)]
    /\ LET grid == Cells(image["qt"].w, image["qt"].h) IN
       paintHist' = [paintHist EXCEPT
          !.painted = @ \cup FilledBy(qpainter, p, grid) \cup StrokedBy(qpainter, p, grid),
          !.lastFill = FilledBy(qpainter, p, grid),
          !.lastStroke = StrokedBy(qpainter, p, grid),
          !.lastColor = qpainter.brush.color,
          !.last = "draw", !.calls = @ + 1]
    /\ UNCHANGED <<qtObjs, copied, live, mkLog, aborted>>

\* qtc_qpainter_draw_rect: QPainter::drawRect(QRectF(x, y, w, h))
qtc_qpainter_draw_rect(x, y, w, h) == qtc_qpainter_draw_path(RectPath(x, y, w, h))

\* a setClipRect that narrows the clip in force, as Qt::IntersectClip does
qtc_qpainter_set_clip_rect_intersect(x, y, w, h) ==
    /\ qpainter' = [qpainter EXCEPT !.clipping = TRUE,
                        !.clip = IF qpainter.clipping
                                 THEN @ \cap FillCells(RectPath(x, y, w, h), Device)
                                 ELSE FillCells(RectPath(x, y, w, h), Device)]
    /\ UNCHANGED <<qlg, qrg, qimg, qbrush, lastKind>>

\* qtc_qpainter_set_clip_rect: QPainter::setClipRect, Qt::ReplaceClip
qtc_qpainter_set_clip_rect(x, y, w, h) ==
    /\ qpainter' = [qpainter EXCEPT !.clipping = TRUE,
                                    !.clip = FillCells(RectPath(x, y, w, h), Device)]
    /\ UNCHANGED <<qlg, qrg, qimg, qbrush, lastKind>>

\* qtc_qpainter_set_clip_path: QPainter::setClipPath, Qt::ReplaceClip
qtc_qpainter_set_clip_path(p) ==
    /\ qpainter' = [qpainter EXCEPT !.clipping = TRUE, !.clip = FillCells(p, Device)]
    /\ UNCHANGED <<qlg, qrg, qimg, qbrush, lastKind>>

\* qtc_qpainter_reset_clip_path: setClipPath(QPainterPath(), Qt::NoClip)
qtc_qpainter_reset_clip_path ==
    /\ qpainter' = [qpainter EXCEPT !.clipping = FALSE,
                                    !.clip = FillCells(PathCreate("qt"), Device)]
    /\ UNCHANGED <<qlg, qrg, qimg, qbrush, lastKind>>

\* the rectangles and the paths given to the draw and clip calls
RectArgs == {<<0, 0, 1, 1>>, <<1, 0, 1, MaxDim>>, <<0, 0, MaxDim, MaxDim>>}
PathArgs == {RectPath(1, 1, 1, 1),
             PathAdd(RectPath(0, 0, MaxDim, MaxDim), "qt", "LineTo", <<1, 0>>),
             PathCreate("qt")}

(***************************************************************************)
(* ResvgRenderer, the Qt class built on the C API                          *)
(* (capi/qt-wrapper/ResvgQt.cpp; c-api/ResvgQt.h holds the same logic).    *)
(* The parser behind resvg_parse_tree_from_* is not part of these sources:  *)
(* it is modelled by its documented result, an error code and, on          *)
(* RESVG_OK only, a tree.                                                  *)
(***************************************************************************)
MaxLoads == 3

NoTree == "nullptr"
NoFile == "no file"
NoPath == "NULL"
\* QRectF()
NullRect == <<0, 0, 0, 0>>

\* the files on disk and in the Qt resource system, by name: their bytes
FileNames == {"image.svg", "empty.svg", "invalid.svg", "missing.svg"}
FileData(name) ==
    CASE name = "image.svg"   -> "svg"
      [] name = "empty.svg"   -> "svg without nodes"
      [] name = "invalid.svg" -> "not svg"
      [] OTHER                -> NoFile

\* the arguments of load(): a path, ":/" first for a Qt resource, or bytes
FileArgs == [prefix : {"", ":/"}, name : FileNames]
DataArgs == {"svg", "svg without nodes", "not svg"}

\* the tree is written on RESVG_OK only
resvg_parse_tree_from_data(data, tree) ==
    IF data = "not svg"
    THEN [err |-> "RESVG_ERROR_PARSING_FAILED", tree |-> tree]
    ELSE [err |-> "RESVG_OK", tree |-> data]

resvg_parse_tree_from_file(name, tree) ==
    IF FileData(name) = NoFile
    THEN [err |-> "RESVG_ERROR_FILE_OPEN_FAILED", tree |-> tree]
    ELSE resvg_parse_tree_from_data(FileData(name), tree)

\* the parsed document has at least one node
HasNodes(tree) == tree = "svg"

\* capi/include/resvg.h: "Returns true if tree has any nodes"
resvg_is_image_empty(tree) == HasNodes(tree)

\* c-api/resvg.h: "Returns true if tree has no nodes"
resvg_is_image_empty_c_api(tree) == ~HasNodes(tree)

resvg_get_image_viewbox(tree) == <<0, 0, 200, 200>>

errorToString(err) == <<"error", err>>

\* ResvgRendererPrivate::reset()
ResvgRendererPrivate_reset(p) ==
    [tree |-> NoTree, optPath |-> NoPath, viewBox |-> NullRect, errMsg |-> <<>>]

\* QRectF(x, y, width, height)
QRectF(x, y, width, height) == [x |-> x, y |-> y, width |-> width, height |-> height]

\* the elements of the document with nodes, by id: their bounding boxes as the
\* library reports them (resvg_rect: x, y, width, height)
ElementIds == {"wide", "square", "group", "absent"}
HasBBox(tree, id) == HasNodes(tree) /\ id \in {"wide", "square"}
NodeBBox(tree, id) ==
    IF id = "wide" THEN [x |-> 1, y |-> 2, width |-> 4, height |-> 3]
    ELSE [x |-> 2, y |-> 1, width |-> 3, height |-> 3]

\* resvg_get_node_bbox / resvg_qt_get_node_bbox: false and bbox left alone
\* when there is no such node or it has no bounding box
resvg_get_node_bbox(tree, id) ==
    IF HasBBox(tree, id)
    THEN [ok |-> TRUE, bbox |-> NodeBBox(tree, id)]
    ELSE [ok |-> FALSE]

\* QRectF ResvgRenderer::boundsOnElement(const QString &id) const of
\* capi/qt-wrapper/ResvgQt.cpp and capi/include/ResvgQt.h
boundsOnElement(p, id) ==
    IF p.tree # NoTree /\ resvg_get_node_bbox(p.tree, id).ok
    THEN LET bbox == resvg_get_node_bbox(p.tree, id).bbox
         IN  QRectF(bbox.x, bbox.y, bbox.height, bbox.width)
    ELSE QRectF(0, 0, 0, 0)

\* the same of c-api/ResvgQt.h
boundsOnElement_c_api(p, id) ==
    IF p.tree # NoTree /\ resvg_get_node_bbox(p.tree, id).ok
    THEN LET bbox == resvg_get_node_bbox(p.tree, id).bbox
         IN  QRectF(bbox.x, bbox.y, bbox.width, bbox.height)
    ELSE QRectF(0, 0, 0, 0)

WrapperVersions == {"capi", "c-api"}
NotAsked == [version |-> "none", id |-> "", tree |-> NoTree, ret |-> QRectF(0, 0, 0, 0)]

ResvgRenderer_boundsOnElement(version, id) ==
    /\ asked' = [version |-> version, id |-> id, tree |-> dptr.tree,
                 ret |-> IF version = "c-api" THEN boundsOnElement_c_api(dptr, id)
                         ELSE boundsOnElement(dptr, id)]
    /\ UNCHANGED <<dptr, loads>>

\* ResvgRenderer()
RendInit ==
    /\ dptr = ResvgRendererPrivate_reset([tree |-> NoTree])
    /\ loads = <<>>
    /\ asked = NotAsked

\* the end of both load() overloads: the error message and false, or the
\* view box and true
AfterParse(p, parsed) ==
    IF parsed.err # "RESVG_OK"
    THEN [d   |-> [p EXCEPT !.tree = parsed.tree, !.errMsg = errorToString(parsed.err)],
          ret |-> FALSE]
    ELSE [d   |-> [p EXCEPT !.tree = parsed.tree,
                            !.viewBox = resvg_get_image_viewbox(parsed.tree)],
          ret |-> TRUE]

\* bool ResvgRenderer::load(const QByteArray &data)
LoadData(p, data) ==
    LET r == ResvgRendererPrivate_reset(p)
    IN  AfterParse(r, resvg_parse_tree_from_data(data, r.tree))

QFileOpen(filePath) == FileData(filePath.name) # NoFile

\* bool ResvgRenderer::load(const QString &filePath)
LoadFile(p, filePath) ==
    IF filePath.prefix = ":/"
    THEN IF QFileOpen(filePath)
         THEN LoadData(p, FileData(filePath.name))
         ELSE [d |-> p, ret |-> FALSE]
    ELSE LET r == [ResvgRendererPrivate_reset(p) EXCEPT !.optPath = filePath.name]
         IN  AfterParse(r, resvg_parse_tree_from_file(filePath.name, r.tree))

ResvgRenderer_load(filePath) ==
    LET out == LoadFile(dptr, filePath)
    IN  /\ dptr' = out.d
        /\ loads' = Append(loads, [arg |-> filePath, ret |-> out.ret])
        /\ UNCHANGED asked

ResvgRenderer_load_data(data) ==
    LET out == LoadData(dptr, data)
    IN  /\ dptr' = out.d
        /\ loads' = Append(loads, [arg |-> [prefix |-> "bytes", name |-> data], ret |-> out.ret])
        /\ UNCHANGED asked

\* bool ResvgRenderer::isValid() const
ResvgRenderer_isValid == dptr.tree # NoTree

\* bool ResvgRenderer::isEmpty() const
ResvgRenderer_isEmpty ==
    IF dptr.tree # NoTree THEN ~resvg_is_image_empty(dptr.tree) ELSE TRUE

\* bool ResvgRenderer::isEmpty() const of c-api/ResvgQt.h, on c-api/resvg.h
ResvgRenderer_isEmpty_c_api ==
    IF dptr.tree # NoTree THEN ~resvg_is_image_empty_c_api(dptr.tree) ELSE TRUE

(***************************************************************************)
(* The Qt viewers: SvgView on the UI thread and SvgViewWorker, moved to a   *)
(* thread of its own (tools/viewsvg/svgview.cpp on c-api/ResvgQt.h, and     *)
(* examples/qt-demo/svgview.cpp on the capi wrapper with a QSvgRenderer     *)
(* next to it).  render() requests reach the worker through its event       *)
(* queue (QTimer::singleShot(1, m_worker, ...)); rendered(img) reaches the  *)
(* view through a queued connection.                                        *)
(***************************************************************************)
MaxViewLoads == 2

Apps == {"viewsvg", "qt-demo"}
RenderBackends == {"Resvg", "QtSvg"}
WrapperOf(a) == IF a = "viewsvg" THEN "c-api" ELSE "capi"

\* ResvgRenderer::isValid / isEmpty of the given wrapper on the renderer p
isValid(p) == p.tree # NoTree
isEmpty(version, p) ==
    IF p.tree # NoTree
    THEN IF version = "c-api" THEN ~resvg_is_image_empty_c_api(p.tree)
         ELSE ~resvg_is_image_empty(p.tree)
    ELSE TRUE

\* QImage(): gen is the document an image was rendered from (0: none),
\* painting says that a QPainter is active on it
NullQImage == [gen |-> 0, painting |-> FALSE]

\* SvgView(): a view and its worker, nothing loaded
NewSvgView(a, fit, backend) ==
    [app |-> a, m_isFitToView |-> fit, m_backend |-> backend,
     m_img |-> NullQImage, m_isHasImage |-> FALSE, m_timer |-> FALSE,
     loaded |-> 0, installed |-> NullQImage, installedAt |-> 0]
NewSvgViewWorker ==
    [m_renderer |-> ResvgRendererPrivate_reset([tree |-> NoTree]), m_qtRenderer |-> FALSE,
     gen |-> 0, loading |-> FALSE, sawLoading |-> FALSE]
IdleUi == [pc |-> "idle", data |-> "", errMsg |-> <<>>]
IdleWorker == [pc |-> "idle", backend |-> "Resvg", img |-> NullQImage]

ViewInit ==
    /\ svgView = NewSvgView("viewsvg", TRUE, "Resvg")
    /\ svgWorker = NewSvgViewWorker
    /\ uiThread = IdleUi
    /\ wkThread = IdleWorker
    /\ m_mutex = "free"
    /\ wkEvents = <<>>
    /\ uiEvents = <<>>

\* ---- the UI thread
\* a load that does not take m_mutex
SvgViewWorker_load_enter_unlocked(data) ==
    /\ uiThread.pc = "idle"
    /\ svgWorker.gen < MaxViewLoads
    /\ UNCHANGED m_mutex
    /\ uiThread' = [uiThread EXCEPT !.pc = "load", !.data = data]
    /\ svgWorker' = [svgWorker EXCEPT !.loading = TRUE,
                                      !.m_renderer = ResvgRendererPrivate_reset(@)]
    /\ UNCHANGED <<svgView, wkThread, wkEvents, uiEvents>>

\* SvgView::loadData / loadFile call SvgViewWorker::loadData / loadFile:
\* QMutexLocker lock(&m_mutex), then m_renderer.load() begins by resetting
SvgViewWorker_load_enter(data) ==
    /\ uiThread.pc = "idle"
    /\ svgWorker.gen < MaxViewLoads
    /\ m_mutex = "free"
    /\ m_mutex' = "ui"
    /\ uiThread' = [uiThread EXCEPT !.pc = "load", !.data = data]
    /\ svgWorker' = [svgWorker EXCEPT !.loading = TRUE,
                                      !.m_renderer = ResvgRendererPrivate_reset(@)]
    /\ UNCHANGED <<svgView, wkThread, wkEvents, uiEvents>>

\* the rest of m_renderer.load(), and m_qtRenderer.load() in the demo
SvgViewWorker_load_parse ==
    /\ uiThread.pc = "load"
    /\ uiThread' = [uiThread EXCEPT !.pc = "loaded"]
    /\ svgWorker' = [svgWorker EXCEPT !.loading = FALSE,
                                      !.gen = @ + 1,
                                      !.m_renderer = LoadData(@, uiThread.data).d,
                                      !.m_qtRenderer = IF svgView.app = "qt-demo"
                                                       THEN uiThread.data # "not svg"
                                                       ELSE @]
    /\ UNCHANGED <<svgView, wkThread, m_mutex, wkEvents, uiEvents>>

\* the worker's load returns (the error string in viewsvg) and unlocks
SvgViewWorker_load_return ==
    /\ uiThread.pc = "loaded"
    /\ m_mutex' = "free"
    /\ uiThread' = [uiThread EXCEPT !.pc = "afterLoad",
                                    !.errMsg = IF isValid(svgWorker.m_renderer) THEN <<>>
                                               ELSE svgWorker.m_renderer.errMsg]
    /\ svgView' = [svgView EXCEPT !.loaded = svgWorker.gen]
    /\ UNCHANGED <<svgWorker, wkThread, wkEvents, uiEvents>>

\* SvgView::afterLoad (viewsvg); the demo goes on to requestUpdate() at once
SvgView_afterLoad ==
    /\ uiThread.pc = "afterLoad"
    /\ IF svgView.app = "qt-demo"
       THEN /\ uiThread' = [uiThread EXCEPT !.pc = "requestUpdate"]
            /\ UNCHANGED svgView
       ELSE IF uiThread.errMsg = <<>>
            THEN /\ svgView' = [svgView EXCEPT !.m_img = NullQImage, !.m_isHasImage = TRUE]
                 /\ uiThread' = [uiThread EXCEPT !.pc = "requestUpdate"]
            ELSE /\ svgView' = [svgView EXCEPT !.m_img = NullQImage, !.m_isHasImage = FALSE]
                 /\ uiThread' = IdleUi
    /\ UNCHANGED <<svgWorker, wkThread, m_mutex, wkEvents, uiEvents>>

\* SvgViewWorker::viewBox(), called by requestUpdate() unless fit-to-view
SvgViewWorker_viewBox ==
    /\ uiThread.pc = "requestUpdate"
    /\ ~svgView.m_isFitToView
    /\ m_mutex = "free"
    /\ m_mutex' = "ui"
    /\ uiThread' = [uiThread EXCEPT !.pc = "viewBox"]
    /\ UNCHANGED <<svgView, svgWorker, wkThread, wkEvents, uiEvents>>

\* SvgView::requestUpdate: m_img was cleared by afterLoad, so its size is not
\* the requested one; start the spinner (viewsvg) and post render()
SvgView_requestUpdate ==
    /\ \/ uiThread.pc = "requestUpdate" /\ svgView.m_isFitToView /\ UNCHANGED m_mutex
       \/ uiThread.pc = "viewBox" /\ m_mutex' = "free"
    /\ uiThread' = IdleUi
    /\ IF svgView.app = "viewsvg" /\ ~svgView.m_isHasImage
       THEN UNCHANGED <<svgView, wkEvents>>
       ELSE /\ svgView' = [svgView EXCEPT !.m_timer = IF svgView.app = "viewsvg" THEN TRUE ELSE @]
            /\ wkEvents' = Append(wkEvents, svgView.m_backend)
    /\ UNCHANGED <<svgWorker, wkThread, uiEvents>>

\* SvgView::onRendered, run by the UI event loop for a queued rendered(img)
SvgView_onRendered ==
    /\ uiThread.pc = "idle"
    /\ uiEvents # <<>>
    /\ uiEvents' = Tail(uiEvents)
    /\ svgView' = [svgView EXCEPT !.m_timer = FALSE,
                                  !.m_img = Head(uiEvents),
                                  !.installed = Head(uiEvents),
                                  !.installedAt = svgView.loaded]
    /\ UNCHANGED <<svgWorker, uiThread, wkThread, m_mutex, wkEvents>>

\* ---- the worker thread
\* SvgViewWorker::render begins: QMutexLocker lock(&m_mutex)
SvgViewWorker_render_enter ==
    /\ wkThread.pc = "idle"
    /\ wkEvents # <<>>
    /\ m_mutex = "free"
    /\ m_mutex' = "worker"
    /\ wkEvents' = Tail(wkEvents)
    /\ wkThread' = [wkThread EXCEPT !.pc = "render", !.backend = Head(wkEvents)]
    /\ UNCHANGED <<svgView, svgWorker, uiThread, uiEvents>>

\* the test of isEmpty() / isValid(): return, or make the image and begin a
\* painter on it (renderToImage hands back a finished image in viewsvg)
SvgViewWorker_render_begin ==
    /\ wkThread.pc = "render"
    /\ svgWorker' = [svgWorker EXCEPT !.sawLoading = @ \/ svgWorker.loading]
    /\ IF \/ wkThread.backend = "Resvg"
             /\ isEmpty(WrapperOf(svgView.app), svgWorker.m_renderer)
          \/ wkThread.backend = "QtSvg" /\ ~svgWorker.m_qtRenderer
       THEN /\ wkThread' = IdleWorker
            /\ m_mutex' = "free"
       ELSE /\ wkThread' = [wkThread EXCEPT
                               !.pc = IF svgView.app = "viewsvg" THEN "painted" ELSE "painting",
                               !.img = [gen |-> svgWorker.gen,
                                        painting |-> svgView.app = "qt-demo"]]
            /\ UNCHANGED m_mutex
    /\ UNCHANGED <<svgView, uiThread, wkEvents, uiEvents>>

\* m_renderer.render(&p); and no p.end() before the signal
SvgViewWorker_render_end_missing ==
    /\ wkThread.pc = "painting"
    /\ wkThread' = [wkThread EXCEPT !.pc = "painted"]
    /\ UNCHANGED <<svgView, svgWorker, uiThread, m_mutex, wkEvents, uiEvents>>

\* m_renderer.render(&p); p.end();
SvgViewWorker_render_end ==
    /\ wkThread.pc = "painting"
    /\ wkThread' = [wkThread EXCEPT !.pc = "painted", !.img.painting = FALSE]
    /\ UNCHANGED <<svgView, svgWorker, uiThread, m_mutex, wkEvents, uiEvents>>

\* emit rendered(img); and the end of render(), which unlocks
SvgViewWorker_render_emit ==
    /\ wkThread.pc = "painted"
    /\ uiEvents' = Append(uiEvents, wkThread.img)
    /\ wkThread' = IdleWorker
    /\ m_mutex' = "free"
    /\ UNCHANGED <<svgView, svgWorker, uiThread, wkEvents>>

(***************************************************************************)
(* The diff tool (testing_tools/vdiff/render.cpp): Render::diffImage.      *)
(***************************************************************************)
MaxDiffDim == 2

\* the colours of the compared pixels, as (R, G, B)
DiffBlack == <<0, 0, 0>>
DiffColors == {<<3, 4, 0>>, <<5, 1, 0>>, <<4, 4, 2>>}

\* the largest n with n * n <= v: int(std::sqrt(v)) for the v that occur
RECURSIVE ISqrtFrom(_, _)
ISqrtFrom(v, n) == IF (n + 1) * (n + 1) > v THEN n ELSE ISqrtFrom(v, n + 1)
ISqrt(v) == ISqrtFrom(v, 0)

\* int colorDistance(const QColor &color1, const QColor &color2)
colorDistance(color1, color2) ==
    LET rd == (color1[1] - color2[1]) * (color1[1] - color2[1])
        gd == (color1[2] - color2[2]) * (color1[2] - color2[2])
        bd == (color1[3] - color2[3]) * (color1[3] - color2[3])
    IN  ISqrt(rd + gd + bd)

\* an image: its size and its pixels by <<x, y>>
DiffCells(w, h) == (0 .. w - 1) \X (0 .. h - 1)
DiffImages(colors) ==
    UNION {[w : {w}, h : {h}, px : [DiffCells(w, h) -> colors]] :
              w \in 1 .. MaxDiffDim, h \in 1 .. MaxDiffDim}

\* DiffOutput Render::diffImage(const DiffData &data)
diffImage(img1, img2) ==
    LET w == IF img1.w < img2.w THEN img1.w ELSE img2.w
        h == IF img1.h < img2.h THEN img1.h ELSE img2.h
        differs(c) == colorDistance(img1.px[c], img2.px[c]) > 5
    IN  [value |-> Cardinality({c \in DiffCells(w, h) : differs(c)}),
         w |-> w, h |-> h,
         img |-> [c \in DiffCells(img1.w, img1.h) |->
                     IF c \in DiffCells(w, h)
                     THEN IF differs(c) THEN "red" ELSE "white"
                     ELSE "green"]]

NoDiff == [value |-> 0, w |-> 0, h |-> 0, img |-> <<>>]
DiffIdle ==
    /\ diffData = [img1 |-> [w |-> 1, h |-> 1, px |-> [c \in DiffCells(1, 1) |-> DiffBlack]],
                   img2 |-> [w |-> 1, h |-> 1, px |-> [c \in DiffCells(1, 1) |-> DiffBlack]]]
    /\ diffOutput = NoDiff

Render_diffImage ==
    /\ diffOutput = NoDiff
    /\ diffOutput' = diffImage(diffData.img1, diffData.img2)
    /\ UNCHANGED diffData

(***************************************************************************)
(* The diff tool's pipeline (testing_tools/vdiff/render.cpp and             *)
(* tests/vdiff/mainwindow.cpp): Render::render starts one task per image    *)
(* type on the thread pool; QFutureWatcher m_watcher1 delivers each result  *)
(* and then finished to the UI thread, where the diffs are started under    *)
(* m_watcher2.  setFuture() on a watcher drops the future it watched.       *)
(***************************************************************************)
MaxRenders == 2

ImageTypes == {"Chrome", "ResvgCairo", "ResvgQt", "Inkscape", "Rsvg", "QtSvg"}

\* Render::Render and MainWindow::MainWindow: nothing requested, controls enabled
VdiffInit ==
    /\ m_render = [phase |-> "idle", rendering |-> {}, m_imgs |-> {}, diffing |-> {}]
    /\ mainWindow = [gui |-> TRUE, requests |-> 0, finished |-> 0, errors |-> 0,
                     warnings |-> {}, diffs |-> {}]

\* MainWindow::loadImage, n times within one handler of the UI thread (the
\* combo box reports a changed index while MainWindow::loadImageList fills
\* it, and loadImageList then calls loadImage itself): each call runs
\* Render::render, which clears m_imgs and hands a new future to m_watcher1
MainWindow_loadImage(n) ==
    /\ mainWindow.gui
    /\ mainWindow.requests + n <= MaxRenders
    /\ m_render' = [phase |-> "render", rendering |-> ImageTypes, m_imgs |-> {},
                    diffing |-> {}]
    /\ mainWindow' = [gui |-> FALSE, requests |-> mainWindow.requests + n, finished |-> 0,
                      errors |-> 0, warnings |-> {}, diffs |-> {}]

\* Render::renderImage has returned for one image type, an image or a
\* message, and m_watcher1 delivers it: Render::onImageRendered
Render_onImageRendered(type, ok) ==
    /\ m_render.phase = "render"
    /\ type \in m_render.rendering
    /\ m_render' = [m_render EXCEPT !.rendering = @ \ {type},
                                    !.m_imgs = IF ok THEN @ \cup {type} ELSE @]
    /\ mainWindow' = [mainWindow EXCEPT !.warnings = IF ok THEN @ ELSE @ \cup {type}]

\* MainWindow::onRenderFinished, connected to Render::finished
onRenderFinished(w) == [w EXCEPT !.gui = TRUE, !.finished = @ + 1]

\* the same handler without its effect on the controls
Render_onImagesRendered_silent ==
    /\ m_render.phase = "render"
    /\ m_render.rendering = {}
    /\ IF "Chrome" \notin m_render.m_imgs
       THEN /\ m_render' = [m_render EXCEPT !.phase = "idle"]
            /\ mainWindow' = [mainWindow EXCEPT !.errors = @ + 1]
       ELSE /\ m_render' = [m_render EXCEPT !.phase = "diff",
                                            !.diffing = m_render.m_imgs \ {"Chrome"}]
            /\ UNCHANGED mainWindow

\* Render::onImagesRendered, on m_watcher1's finished
Render_onImagesRendered ==
    /\ m_render.phase = "render"
    /\ m_render.rendering = {}
    /\ IF "Chrome" \notin m_render.m_imgs
       THEN /\ m_render' = [m_render EXCEPT !.phase = "idle"]
            /\ mainWindow' = onRenderFinished([mainWindow EXCEPT !.errors = @ + 1])
       ELSE /\ m_render' = [m_render EXCEPT !.phase = "diff",
                                            !.diffing = m_render.m_imgs \ {"Chrome"}]
            /\ UNCHANGED mainWindow

\* Render::diffImage has returned for one image type and m_watcher2 delivers
\* it: Render::onDiffResult
Render_onDiffResult(type) ==
    /\ m_render.phase = "diff"
    /\ type \in m_render.diffing
    /\ m_render' = [m_render EXCEPT !.diffing = @ \ {type}]
    /\ mainWindow' = [mainWindow EXCEPT !.diffs = @ \cup {type}]

\* Render::onDiffFinished, on m_watcher2's finished
Render_onDiffFinished ==
    /\ m_render.phase = "diff"
    /\ m_render.diffing = {}
    /\ m_render' = [m_render EXCEPT !.phase = "idle"]
    /\ mainWindow' = onRenderFinished(mainWindow)

(***************************************************************************)
(* The Skia viewers: SvgView of tools/viewsvg-skia and SvgViewNativeImpl   *)
(* of tools/viewsvg-skia.net own one resvg_render_tree through the raw     *)
(* pointer tree_.  skTrees lists the trees the library has created, with   *)
(* the number of resvg_tree_destroy calls each has received.               *)
(***************************************************************************)
MaxSkiaLoads == 3

SkiaApps == {"viewsvg-skia", "viewsvg-skia.net"}

\* resvg_get_image_size
resvg_get_image_size(data) == IF data = "svg" THEN <<200, 100>> ELSE <<10, 10>>

\* tree_, imageChanged_ and svgSize_ as a load finds them
SkiaLoaded(v) == [tree_ |-> v.tree_, imageChanged_ |-> v.imageChanged_, svgSize_ |-> v.svgSize_]

\* SvgView::SvgView, SvgViewNativeImpl::SvgViewNativeImpl: svgSize_ has no
\* initializer
NewSkiaView(a, size) ==
    [app |-> a, alive |-> TRUE, tree_ |-> 0, imageChanged_ |-> FALSE, svgSize_ |-> size,
     backendSurface_ |-> FALSE, loads |-> 0, returned |-> "nothing",
     before |-> [tree_ |-> 0, imageChanged_ |-> FALSE, svgSize_ |-> size]]

SkiaIdle ==
    /\ skView = NewSkiaView("viewsvg-skia", <<0, 0>>)
    /\ skTrees = <<>>

\* resvg_tree_destroy
resvg_tree_destroy(trees, t) == [trees EXCEPT ![t].destroyed = @ + 1]

\* SvgView::loadFile and SvgViewNativeImpl::LoadFile
SkiaView_loadFile(name) ==
    /\ skView.alive
    /\ skView.loads < MaxSkiaLoads
    /\ LET r == resvg_parse_tree_from_file(name, NoTree)
           v == [skView EXCEPT !.loads = @ + 1, !.before = SkiaLoaded(skView)]
           kept == IF skView.tree_ # 0 THEN resvg_tree_destroy(skTrees, skView.tree_)
                                       ELSE skTrees
       IN  IF r.err = "RESVG_OK"
           THEN /\ skTrees' = Append(kept, [data |-> r.tree, destroyed |-> 0])
                /\ skView' = [v EXCEPT !.tree_ = Len(skTrees) + 1,
                                       !.imageChanged_ = IF v.app = "viewsvg-skia" THEN TRUE ELSE @,
                                       !.svgSize_ = IF v.app = "viewsvg-skia.net"
                                                    THEN resvg_get_image_size(r.tree) ELSE @,
                                       !.returned = "true"]
           ELSE /\ skTrees' = skTrees
                /\ skView' = [v EXCEPT !.returned = "false"]

\* SvgView::resize with a positive size
SvgView_resize ==
    /\ skView.alive
    /\ skView.app = "viewsvg-skia"
    /\ skView' = [skView EXCEPT !.backendSurface_ = TRUE, !.imageChanged_ = TRUE,
                                !.returned = "nothing"]
    /\ UNCHANGED skTrees

\* SvgView::render with drawImageToFit / drawImageRect
SvgView_render ==
    /\ skView.alive
    /\ skView.app = "viewsvg-skia"
    /\ skView.backendSurface_
    /\ skView' = [skView EXCEPT !.imageChanged_ = IF skView.tree_ # 0 THEN FALSE ELSE @,
                                !.returned = "nothing"]
    /\ UNCHANGED skTrees

\* SvgView::~SvgView, which is empty, and SvgViewNativeImpl::~SvgViewNativeImpl
SkiaView_destroy ==
    /\ skView.alive
    /\ skView' = [skView EXCEPT !.alive = FALSE, !.returned = "nothing"]
    /\ skTrees' = IF skView.app = "viewsvg-skia.net" /\ skView.tree_ # 0
                  THEN resvg_tree_destroy(skTrees, skView.tree_)
                  ELSE skTrees

(***************************************************************************)
(* The Explorer thumbnailer DLL (tools/explorer-thumbnailer/src/main.cpp): *)
(* the module's count g_cRef, moved by the exported DllAddRef and          *)
(* DllRelease, which CThumbnailProvider calls when it is constructed and   *)
(* destroyed.  The Interlocked operations are atomic, so every call is one *)
(* step in any interleaving of threads.  held counts the DllAddRef calls   *)
(* made from outside less the DllRelease calls made from outside.          *)
(***************************************************************************)
MaxDllCalls == 4
MaxProviders == 2

Providers == 1 .. MaxProviders

\* LONG g_cRef = 0; no CThumbnailProvider exists
ThumbInit ==
    thumbnailer = [g_cRef |-> 0, m_cRef |-> [o \in Providers |-> 0], calls |-> 0, held |-> 0,
                   returned |-> 0, canUnload |-> "not asked"]

\* DllCanUnloadNow
DllCanUnloadNow(g_cRef) == IF g_cRef # 0 THEN "S_FALSE" ELSE "S_OK"

\* DllAddRef: InterlockedIncrement(&g_cRef), its result returned
DllAddRef(t) == [t EXCEPT !.g_cRef = @ + 1, !.returned = t.g_cRef + 1]

\* DllRelease: InterlockedDecrement(&g_cRef); the local cRef is floored at
\* zero and returned
DllRelease(t) ==
    [t EXCEPT !.g_cRef = @ - 1,
              !.returned = IF 0 > t.g_cRef - 1 THEN 0 ELSE t.g_cRef - 1]

\* one more call into the DLL; what DllCanUnloadNow said before is out of date
DllCalled(t) == [t EXCEPT !.calls = @ + 1, !.canUnload = "not asked"]

\* a call of the exported DllAddRef from outside CThumbnailProvider
Dll_DllAddRef ==
    /\ thumbnailer.calls < MaxDllCalls
    /\ thumbnailer' = [DllAddRef(DllCalled(thumbnailer)) EXCEPT !.held = @ + 1]

\* a call of the exported DllRelease from outside CThumbnailProvider
Dll_DllRelease ==
    /\ thumbnailer.calls < MaxDllCalls
    /\ thumbnailer' = [DllRelease(DllCalled(thumbnailer)) EXCEPT !.held = @ - 1]

\* a call of DllCanUnloadNow by COM
Dll_DllCanUnloadNow ==
    /\ thumbnailer.canUnload = "not asked"
    /\ thumbnailer' = [thumbnailer EXCEPT !.canUnload = DllCanUnloadNow(thumbnailer.g_cRef)]

\* CThumbnailProvider::CThumbnailProvider
CThumbnailProvider_new(o) ==
    /\ thumbnailer.calls < MaxDllCalls
    /\ thumbnailer.m_cRef[o] = 0
    /\ thumbnailer' = [DllAddRef(DllCalled(thumbnailer)) EXCEPT !.m_cRef[o] = 1]

\* CThumbnailProvider::AddRef
CThumbnailProvider_AddRef(o) ==
    /\ thumbnailer.calls < MaxDllCalls
    /\ thumbnailer.m_cRef[o] > 0
    /\ thumbnailer' = [DllCalled(thumbnailer) EXCEPT !.m_cRef[o] = @ + 1,
                                                  !.returned = thumbnailer.m_cRef[o] + 1]

\* CThumbnailProvider::Release, with ~CThumbnailProvider when the object's
\* count reaches zero
CThumbnailProvider_Release(o) ==
    /\ thumbnailer.m_cRef[o] > 0
    /\ LET t == [DllCalled(thumbnailer) EXCEPT !.m_cRef[o] = @ - 1]
       IN  thumbnailer' = [(IF t.m_cRef[o] = 0 THEN DllRelease(t) ELSE t)
                               EXCEPT !.returned = t.m_cRef[o]]

WinIdle == SkiaIdle /\ ThumbInit

ToolInit == ViewInit /\ DiffIdle /\ VdiffInit /\ WinIdle

(***************************************************************************)
(* The specifications.                                                     *)
(***************************************************************************)
Init ==
    /\ RefInit /\ MatrixIdle /\ CanvasInit /\ PenInit /\ QtInit /\ ImgInit /\ PathInit /\ PaintInit
    /\ RendInit /\ ToolInit

RefOnly    == UNCHANGED <<matrixVars, canvasVars, penVars, qtVars, moreVars>>
CanvasOnly == UNCHANGED <<refVars, matrixVars, penVars, qtVars, moreVars>>
PenOnly    == UNCHANGED <<refVars, matrixVars, canvasVars, qtVars, moreVars>>
QtOnly     == UNCHANGED <<refVars, matrixVars, canvasVars, moreVars>>

\* ---- SpecRef
NextRef ==
    \/ \E o \in ObjIds : skiac_shader_make(o) /\ RefOnly
    \/ \E o \in ObjIds : skiac_path_effect_make_dash_path(o) /\ RefOnly
    \/ \E p \in PaintIds : skiac_paint_create(p) /\ RefOnly
    \/ \E p \in PaintIds, o \in ObjIds \cup {NULL} : skiac_paint_set_shader(p, o) /\ RefOnly
    \/ \E p \in PaintIds, o \in ObjIds \cup {NULL} : skiac_paint_set_path_effect(p, o) /\ RefOnly
    \/ \E o \in ObjIds : skiac_shader_destroy(o) /\ RefOnly
    \/ \E o \in ObjIds : skiac_path_effect_destroy(o) /\ RefOnly
    \/ \E p \in PaintIds : skiac_paint_destroy(p) /\ RefOnly

SpecRef == Init /\ [][NextRef]_vars

\* ---- SpecMatrix
InitMatrix ==
    /\ RefInit /\ MatrixInit /\ CanvasInit /\ PenInit /\ QtInit /\ ImgInit /\ PathInit /\ PaintInit
    /\ RendInit /\ ToolInit

NextMatrix ==
    \/ \E be \in Backends : CreateFrom(be) /\ UNCHANGED <<refVars, canvasVars, penVars, qtVars, moreVars>>
    \/ \E be \in Backends : GetData(be) /\ UNCHANGED <<refVars, canvasVars, penVars, qtVars, moreVars>>
    \/ \E be \in Backends : CreateInverse(be) /\ UNCHANGED <<refVars, canvasVars, penVars, qtVars, moreVars>>

SpecMatrix == InitMatrix /\ [][NextMatrix]_vars

\* ---- SpecCanvas and SpecPaint
Tick(max) == calls < max /\ calls' = calls + 1

CanvasCalls(max) ==
    \/ \E m \in MatrixArgs : skiac_canvas_set_matrix(m) /\ Tick(max) /\ CanvasOnly
    \/ \E m \in MatrixArgs : skiac_canvas_concat(m) /\ Tick(max) /\ CanvasOnly
    \/ skiac_canvas_scale(-1, 1) /\ Tick(max) /\ CanvasOnly
    \/ skiac_canvas_translate(1, 0) /\ Tick(max) /\ CanvasOnly
    \/ skiac_canvas_reset_matrix /\ Tick(max) /\ CanvasOnly
    \/ \E r \in ClipArgs : skiac_canvas_clip_rect(r[1], r[2], r[3], r[4]) /\ Tick(max) /\ CanvasOnly
    \/ skiac_canvas_save /\ Tick(max) /\ CanvasOnly
    \/ skiac_canvas_restore /\ Tick(max) /\ CanvasOnly

PaintCalls(max) ==
    \/ skiac_paint_set_color(255, 0, 0, 255) /\ Tick(max) /\ CanvasOnly
    \/ skiac_paint_set_alpha(128) /\ Tick(max) /\ CanvasOnly
    \/ skiac_paint_set_anti_alias(TRUE) /\ Tick(max) /\ CanvasOnly
    \/ skiac_paint_set_blend_mode("Multiply") /\ Tick(max) /\ CanvasOnly
    \/ skiac_paint_set_style("Stroke") /\ Tick(max) /\ CanvasOnly
    \/ skiac_paint_set_stroke_width(2) /\ Tick(max) /\ CanvasOnly

NextCanvas == CanvasCalls(MaxCalls)

SpecCanvas == Init /\ [][NextCanvas]_vars

NextPaint == CanvasCalls(MaxPaintCalls) \/ PaintCalls(MaxPaintCalls)

SpecPaint == Init /\ [][NextPaint]_vars

\* ---- SpecPen
PenBudget == Len(penLog) < MaxPenCalls

NextPen ==
    \/ \E w \in WidthArgs : qtc_qpen_set_width(w) /\ PenBudget /\ PenOnly
    \/ \E off \in OffsetArgs : qtc_qpen_set_dash_offset(off) /\ PenBudget /\ PenOnly
    \/ \E array \in DashArgs : qtc_qpen_set_dash_array(array) /\ PenBudget /\ PenOnly

SpecPen == Init /\ [][NextPen]_vars

\* ---- SpecQt
QtTick == qtCalls < MaxQtCalls /\ qtCalls' = qtCalls + 1

OnQt  == QtTick /\ UNCHANGED penVars /\ QtOnly       \* a call on a gradient, image, brush or painter
OnPen == QtTick /\ UNCHANGED qtObjs /\ QtOnly        \* a call on the pen

Red  == <<255, 0, 0, 255>>
Blue == <<0, 0, 255, 128>>

NextQt ==
    \/ \E st \in {<<0, Red>>, <<5, Blue>>, <<12, Red>>} :
          qtc_qlineargradient_set_color_at(st[1], st[2][1], st[2][2], st[2][3], st[2][4]) /\ OnQt
    \/ qtc_qlineargradient_set_spread("ReflectSpread") /\ OnQt
    \/ qtc_qlineargradient_destroy /\ OnQt
    \/ qtc_qradialgradient_set_color_at(5, 0, 0, 255, 128) /\ OnQt
    \/ qtc_qradialgradient_set_spread("RepeatSpread") /\ OnQt
    \/ qtc_qradialgradient_destroy /\ OnQt
    \/ qtc_qimage_fill(255, 0, 0, 255) /\ OnQt
    \/ qtc_qimage_destroy /\ OnQt
    \/ \E c \in {Red, Blue} : qtc_qbrush_set_color(c[1], c[2], c[3], c[4]) /\ OnQt
    \/ qtc_qbrush_set_linear_gradient /\ OnQt
    \/ qtc_qbrush_set_radial_gradient /\ OnQt
    \/ qtc_qbrush_set_pattern /\ OnQt
    \/ qtc_qbrush_set_transform(qtc_qtransform_create_from(2, 0, 0, 2, 0, 0)) /\ OnQt
    \/ qtc_qbrush_destroy /\ OnQt
    \/ qtc_qpen_set_color(255, 0, 0, 255) /\ OnPen
    \/ qtc_qpen_set_brush /\ OnPen
    \/ qtc_qpen_set_line_cap("RoundCap") /\ OnPen
    \/ qtc_qpen_set_line_join("MiterJoin") /\ OnPen
    \/ \E w \in {Num(2), Num(4)} : qtc_qpen_set_width(w) /\ OnPen
    \/ qtc_qpen_set_miter_limit(Num(4)) /\ OnPen
    \/ qtc_qpen_destroy /\ OnPen
    \/ qtc_qpainter_set_pen /\ OnQt
    \/ qtc_qpainter_reset_pen /\ OnQt
    \/ qtc_qpainter_set_brush /\ OnQt
    \/ qtc_qpainter_reset_brush /\ OnQt

SpecQt == Init /\ [][NextQt]_vars

\* ---- SpecMake
ImgOnly == UNCHANGED <<refVars, matrixVars, canvasVars, penVars, qtVars, pathVars, paintHist,
                        rendVars, toolVars>>
MakeBudget == Len(mkLog) < MaxMakeCalls /\ ~aborted
OnMake == MakeBudget /\ ImgOnly

NextMake ==
    \/ \E w \in DimArgs, h \in DimArgs, premul \in BOOLEAN :
          qtc_qimage_create_rgba(w, h, premul) /\ OnMake
    \/ \E w \in DimArgs, h \in DimArgs, premul \in BOOLEAN :
          skiac_surface_create_rgba(w, h, premul) /\ OnMake
    \/ \E r \in CopyArgs : skiac_surface_copy_rgba(r[1], r[2], r[3], r[4]) /\ OnMake
    \/ \E r \in CopyArgs : qtc_qimage_copy(r[1], r[2], r[3], r[4]) /\ OnMake
    \/ \E fn \in {"make_linear_gradient", "make_two_point_conical_gradient"}, count \in 0 .. 2 :
          skiac_shader_make_gradient(fn, count) /\ OnMake
    \/ \E count \in 0 .. 3 : skiac_path_effect_make_dash_path_of(count) /\ OnMake
    \/ \E build \in {"skia", "skia_m58", "skia_cpp"}, encodes \in BOOLEAN, writes \in BOOLEAN :
          skiac_surface_save(build, encodes, writes) /\ OnMake
    \/ \E encodes \in BOOLEAN, writes \in BOOLEAN : qtc_qimage_save(encodes, writes) /\ OnMake

SpecMake == Init /\ [][NextMake]_vars

\* ---- SpecPath
PathBudget == Len(path["qt"].elems) + Len(path["skia"].elems) < MaxPathLen
OnPath ==
    /\ PathBudget
    /\ UNCHANGED <<refVars, matrixVars, canvasVars, penVars, qtVars, imgVars, paintHist, rendVars,
                   toolVars>>
PointArgs == {<<0, 0>>, <<1, 0>>, <<1, 1>>}

NextPath ==
    \/ \E be \in ImgBackends, pt \in PointArgs : path_move_to(be, pt[1], pt[2]) /\ OnPath
    \/ \E be \in ImgBackends, pt \in PointArgs : path_line_to(be, pt[1], pt[2]) /\ OnPath
    \/ \E be \in ImgBackends, pt \in PointArgs :
          path_curve_to(be, 0, 1, 1, 1, pt[1], pt[2]) /\ OnPath
    \/ \E be \in ImgBackends : path_close(be) /\ OnPath
    \/ \E be \in ImgBackends, i \in 1 .. 2 : path_set_fill_rule(be, FillRules(be)[i]) /\ OnPath

SpecPath == Init /\ [][NextPath]_vars

\* ---- SpecDraw: a canvas made by qtc_qimage_create_rgba[_premultiplied], a
\* painter made on it by qtc_qpainter_create, a brush and a pen
InitDraw ==
    /\ RefInit /\ MatrixIdle /\ CanvasInit /\ PenInit /\ QtInit /\ PathInit /\ PaintInit
    /\ RendInit /\ ToolInit
    /\ \E premul \in BOOLEAN, bytes \in Uninitialized :
          image = [be \in ImgBackends |->
                      IF be = "qt" THEN QImage(MaxDim, MaxDim, premul, TRUE, bytes)
                      ELSE NoImage]
    /\ copied = [be \in ImgBackends |-> NoImage]
    /\ live = [be \in ImgBackends |-> IF be = "qt" THEN 1 ELSE 0]
    /\ mkLog = <<>>
    /\ aborted = FALSE

DrawBudget == paintHist.calls < MaxDrawCalls
NotDrawn == UNCHANGED <<refVars, matrixVars, canvasVars, imgVars, pathVars, rendVars, toolVars>>
\* a call on the brush or the painter, noted in the history
OnPainter(field, call) == DrawBudget /\ Noted(field, call, {}) /\ UNCHANGED penVars /\ NotDrawn
OnDraw ==
    /\ DrawBudget
    /\ UNCHANGED <<refVars, matrixVars, canvasVars, penVars, qtCalls, pathVars, rendVars,
                   toolVars>>

NextDraw ==
    \/ qtc_qbrush_set_color(255, 0, 0, 255) /\ UNCHANGED qtCalls /\ OnPainter("last", "brush_set_color")
    \/ qtc_qpainter_set_pen /\ UNCHANGED qtCalls /\ OnPainter("pen", "set_pen")
    \/ qtc_qpainter_reset_pen /\ UNCHANGED qtCalls /\ OnPainter("pen", "reset_pen")
    \/ qtc_qpainter_set_brush /\ UNCHANGED qtCalls /\ OnPainter("brush", "set_brush")
    \/ qtc_qpainter_reset_brush /\ UNCHANGED qtCalls /\ OnPainter("brush", "reset_brush")
    \/ \E r \in RectArgs : qtc_qpainter_draw_rect(r[1], r[2], r[3], r[4]) /\ OnDraw
    \/ \E p \in PathArgs : qtc_qpainter_draw_path(p) /\ OnDraw

SpecDraw == InitDraw /\ [][NextDraw]_vars

\* ---- SpecClip: the clip calls of the QPainter and the calls of the SkCanvas
OnClip(call, region) ==
    /\ Tick(MaxClipCalls) /\ Noted("clip", call, region)
    /\ UNCHANGED <<refVars, matrixVars, mcStack, skpaint, snap, undid, penVars, qtCalls,
                   imgVars, pathVars, rendVars, toolVars>>

NextClip ==
    \/ CanvasCalls(MaxClipCalls)
    \/ \E r \in RectArgs :
          /\ qtc_qpainter_set_clip_rect(r[1], r[2], r[3], r[4])
          /\ OnClip("set_clip_rect", FillCells(RectPath(r[1], r[2], r[3], r[4]), Device))
    \/ \E p \in PathArgs :
          qtc_qpainter_set_clip_path(p) /\ OnClip("set_clip_path", FillCells(p, Device))
    \/ qtc_qpainter_reset_clip_path /\ OnClip("reset_clip_path", {})

SpecClip == Init /\ [][NextClip]_vars

\* ---- SpecRenderer: load calls on one ResvgRenderer
OnRenderer ==
    /\ Len(loads) < MaxLoads
    /\ UNCHANGED <<refVars, matrixVars, canvasVars, penVars, qtVars, imgVars, pathVars, paintHist,
                   toolVars>>

NextRenderer ==
    \/ \E filePath \in FileArgs : ResvgRenderer_load(filePath) /\ OnRenderer
    \/ \E data \in DataArgs : ResvgRenderer_load_data(data) /\ OnRenderer
    \/ \E version \in WrapperVersions, id \in ElementIds :
          ResvgRenderer_boundsOnElement(version, id) /\ OnRenderer

SpecRenderer == Init /\ [][NextRenderer]_vars

\* ---- SpecView: loads on the UI thread against renders on the worker thread
InitView ==
    /\ RefInit /\ MatrixIdle /\ CanvasInit /\ PenInit /\ QtInit /\ ImgInit /\ PathInit /\ PaintInit
    /\ RendInit
    /\ \E a \in Apps, fit \in BOOLEAN, backend \in RenderBackends :
          /\ a = "viewsvg" => backend = "Resvg"
          /\ svgView = NewSvgView(a, fit, backend)
    /\ svgWorker = NewSvgViewWorker
    /\ uiThread = IdleUi
    /\ wkThread = IdleWorker
    /\ m_mutex = "free"
    /\ wkEvents = <<>>
    /\ uiEvents = <<>>
    /\ DiffIdle /\ VdiffInit /\ WinIdle

OnView ==
    UNCHANGED <<refVars, matrixVars, canvasVars, penVars, qtVars, imgVars, pathVars, paintHist,
                rendVars, diffVars, vdiffVars, winVars>>

UiSteps ==
    \/ SvgViewWorker_load_parse /\ OnView
    \/ SvgViewWorker_load_return /\ OnView
    \/ SvgView_afterLoad /\ OnView
    \/ SvgViewWorker_viewBox /\ OnView
    \/ SvgView_requestUpdate /\ OnView
    \/ SvgView_onRendered /\ OnView

WorkerSteps ==
    \/ SvgViewWorker_render_enter /\ OnView
    \/ SvgViewWorker_render_begin /\ OnView
    \/ SvgViewWorker_render_end /\ OnView
    \/ SvgViewWorker_render_emit /\ OnView

NextView ==
    \/ \E data \in DataArgs : SvgViewWorker_load_enter(data) /\ OnView
    \/ SvgViewWorker_load_parse /\ OnView
    \/ SvgViewWorker_load_return /\ OnView
    \/ SvgView_afterLoad /\ OnView
    \/ SvgViewWorker_viewBox /\ OnView
    \/ SvgView_requestUpdate /\ OnView
    \/ SvgView_onRendered /\ OnView
    \/ SvgViewWorker_render_enter /\ OnView
    \/ SvgViewWorker_render_begin /\ OnView
    \/ SvgViewWorker_render_end /\ OnView
    \/ SvgViewWorker_render_emit /\ OnView

SpecView == InitView /\ [][NextView]_vars

\* the same under fair scheduling of the worker thread and the UI event loop;
\* the user is free never to load again
SpecViewLive == SpecView /\ WF_vars(UiSteps) /\ WF_vars(WorkerSteps)

\* ---- SpecDiff: Render::diffImage on a Chrome image and another image
InitDiff ==
    /\ RefInit /\ MatrixIdle /\ CanvasInit /\ PenInit /\ QtInit /\ ImgInit /\ PathInit /\ PaintInit
    /\ RendInit /\ ViewInit
    /\ \E img1 \in DiffImages({DiffBlack}), img2 \in DiffImages(DiffColors) :
          diffData = [img1 |-> img1, img2 |-> img2]
    /\ diffOutput = NoDiff
    /\ VdiffInit /\ WinIdle

NextDiff ==
    Render_diffImage
        /\ UNCHANGED <<refVars, matrixVars, canvasVars, penVars, qtVars, imgVars, pathVars,
                       paintHist, rendVars, viewVars, vdiffVars, winVars>>

SpecDiff == InitDiff /\ [][NextDiff]_vars

\* ---- SpecVdiff: render requests of the diff tool and their pipeline
OnVdiff ==
    UNCHANGED <<refVars, matrixVars, canvasVars, penVars, qtVars, imgVars, pathVars, paintHist,
                rendVars, viewVars, diffVars, winVars>>

Pipeline ==
    \/ \E type \in ImageTypes, ok \in BOOLEAN : Render_onImageRendered(type, ok) /\ OnVdiff
    \/ Render_onImagesRendered /\ OnVdiff
    \/ \E type \in ImageTypes : Render_onDiffResult(type) /\ OnVdiff
    \/ Render_onDiffFinished /\ OnVdiff

NextVdiff ==
    \/ \E n \in 1 .. MaxRenders : MainWindow_loadImage(n) /\ OnVdiff
    \/ \E type \in ImageTypes, ok \in BOOLEAN : Render_onImageRendered(type, ok) /\ OnVdiff
    \/ Render_onImagesRendered /\ OnVdiff
    \/ \E type \in ImageTypes : Render_onDiffResult(type) /\ OnVdiff
    \/ Render_onDiffFinished /\ OnVdiff

\* every task on the thread pool ends (the external processes are given two
\* minutes) and the UI event loop delivers what the watchers report
SpecVdiff == Init /\ [][NextVdiff]_vars /\ WF_vars(Pipeline)

\* ---- SpecSkia: loads, drawing and destruction of a Skia viewer
InitSkia ==
    /\ RefInit /\ MatrixIdle /\ CanvasInit /\ PenInit /\ QtInit /\ ImgInit /\ PathInit /\ PaintInit
    /\ RendInit /\ ViewInit /\ DiffIdle /\ VdiffInit
    /\ \E a \in SkiaApps, size \in {<<0, 0>>, <<7, 7>>} : skView = NewSkiaView(a, size)
    /\ skTrees = <<>>
    /\ ThumbInit

OnSkia ==
    UNCHANGED <<refVars, matrixVars, canvasVars, penVars, qtVars, imgVars, pathVars, paintHist,
                rendVars, viewVars, diffVars, vdiffVars, thumbnailer>>

NextSkia ==
    \/ \E name \in FileNames : SkiaView_loadFile(name) /\ OnSkia
    \/ SvgView_resize /\ OnSkia
    \/ SvgView_render /\ OnSkia
    \/ SkiaView_destroy /\ OnSkia

SpecSkia == InitSkia /\ [][NextSkia]_vars

\* ---- SpecDll: calls into the thumbnailer DLL, in any order
OnDll ==
    UNCHANGED <<refVars, matrixVars, canvasVars, penVars, qtVars, imgVars, pathVars, paintHist,
                rendVars, viewVars, diffVars, vdiffVars, skiaVars>>

NextDll ==
    \/ Dll_DllAddRef /\ OnDll
    \/ Dll_DllRelease /\ OnDll
    \/ Dll_DllCanUnloadNow /\ OnDll
    \/ \E o \in Providers : CThumbnailProvider_new(o) /\ OnDll
    \/ \E o \in Providers : CThumbnailProvider_AddRef(o) /\ OnDll
    \/ \E o \in Providers : CThumbnailProvider_Release(o) /\ OnDll

SpecDll == Init /\ [][NextDll]_vars

(***************************************************************************)
(* Properties of the Skia reference counts.                                *)
(***************************************************************************)

\* the native objects a paint references
Referenced(p) == {paints[p].shader, paints[p].effect} \ {NULL}

\* C1: a shader or path effect is never freed while a live paint still
\* references it, however often its handle was attached.
C1_NeverFreedWhileReferenced ==
    \A p \in PaintIds :
        paints[p].st = "live" => \A o \in Referenced(p) : ~obj[o].freed

\* C2: once the handle of a shader or path effect is destroyed and every
\* paint it was attached to is destroyed, the native object has been freed,
\* whether it was attached zero times, once or several times.
C2_FreedWhenAllOwnersGone ==
    \A o \in ObjIds :
        (/\ hnd[o] = "destroyed"
         /\ \A p \in attached[o] : paints[p].st = "destroyed")
        => obj[o].freed

(***************************************************************************)
(* Properties of the transforms.                                           *)
(***************************************************************************)

\* C3: in every adapter get_data(create_from(a, b, c, d, e, f)) returns
\* (a, b, c, d, e, f), and the native matrix has b as the coefficient of x
\* in y' and c as the coefficient of y in x'.
C3_RoundTrip ==
    \A be \in Backends :
        /\ readback[be] # NoData =>
              readback[be] = <<coef[1], coef[2], coef[3], coef[4], coef[5], coef[6]>>
        /\ native[be] # NoMatrix =>
              /\ NativeMap(be, 1, 0)[2] - NativeMap(be, 0, 0)[2] = coef[2]
              /\ NativeMap(be, 0, 1)[1] - NativeMap(be, 0, 0)[1] = coef[3]

(***************************************************************************)
(* Properties of save() / restore().                                       *)
(***************************************************************************)

\* a step that is a skiac_canvas_restore with a matching skiac_canvas_save
RestoreStep == Len(snap) > 0 /\ Len(snap') = Len(snap) - 1

C5_RestoreNestsLifo ==
    [][RestoreStep =>
          /\ Len(mcStack') = Len(snap') + 1
          /\ MatrixClip(Top') = MatrixClip(snap[Len(snap)])
          /\ \A i \in 1 .. Len(snap') :
                MatrixClip(mcStack'[i]) = MatrixClip(snap[i])]_vars

\* C5 witness: two nested saves were restored in turn, the inner restore
\* undoing a transform change and the outer one a clip change.
C5_Witness ==
    /\ Len(undid) >= 2
    /\ undid[1].depth = 2 /\ undid[1].matrix
    /\ undid[2].depth = 1 /\ undid[2].clip

(***************************************************************************)
(* Properties of the pen's dash normalisation.                             *)
(***************************************************************************)

\* the index of the last call of `op' in the log, 0 when there is none
LastCall(log, op) ==
    LET S == {i \in 1 .. Len(log) : log[i].op = op}
    IN  IF S = {} THEN 0 ELSE CHOOSE i \in S : \A j \in S : j <= i

\* the last set_dash_array call, and the last set_width call before it
LastDash  == LastCall(penLog, "set_dash_array")
WidthCall == LastCall(SubSeq(penLog, 1, LastDash - 1), "set_width")

\* whether the pen's pattern starts with the entries of D divided by div
StoredIs(pen, D, div) ==
    /\ Len(pen.dashPattern) >= Len(D)
    /\ \A i \in 1 .. Len(D) : pen.dashPattern[i] = Div(D[i], div)

\* the last step was a qtc_qpen_set_width call
SetWidthStep == Len(penLog') = Len(penLog) + 1 /\ penLog'[Len(penLog')].op = "set_width"

\* qtc_qpen_set_width leaves the stored pattern and the stored offset alone
SetWidthKeepsDashes ==
    SetWidthStep => /\ qpen'.pen.dashPattern = qpen.pen.dashPattern
                    /\ qpen'.pen.dashOffset = qpen.pen.dashOffset

\* C6, as claimed: after set_width(w) with w # 0 and set_dash_array(D) the
\* stored pattern is D[i] / w for every i, also after any later set_width;
\* set_width changes neither the stored pattern nor the stored offset.
C6_StoredDashIsArrayOverSetWidth ==
    /\ [](LastDash > 0 /\ WidthCall > 0 /\ penLog[WidthCall].arg # Zero
             => StoredIs(qpen.pen, penLog[LastDash].arg, penLog[WidthCall].arg))
    /\ [][SetWidthKeepsDashes]_vars

\* C6, amended: after set_dash_array(D) the stored pattern is D[i] / W for
\* every i, W being the width the pen held at that call, or 1 when that
\* width is negligible (|W| <= 1e-12), also after any later set_width;
\* set_width changes neither the stored pattern nor the stored offset.
C6_StoredDashIsArrayOverHeldWidth ==
    /\ [](LastDash > 0
             => StoredIs(qpen.pen, penLog[LastDash].arg,
                         IF qFuzzyIsNull(penLog[LastDash].width) THEN Num(1)
                         ELSE penLog[LastDash].width))
    /\ [][SetWidthKeepsDashes]_vars

\* C6 witness: width 4, dash [2, 2], then width 2: the pen still holds
\* [0.5, 0.5].
C6_Witness ==
    /\ Len(penLog) = 3
    /\ penLog[1].op = "set_width" /\ penLog[1].arg = Num(4)
    /\ penLog[2].op = "set_dash_array" /\ penLog[2].arg = <<Num(2), Num(2)>>
    /\ penLog[3].op = "set_width" /\ penLog[3].arg = Num(2)
    /\ qpen.pen.width = Num(2)
    /\ qpen.pen.dashPattern = <<Dec(5, -1), Dec(5, -1)>>

\* a fresh pen driven by setDashArray(D * w); setWidth(1); setWidth(w)
DashFirst(w, D) ==
    PenSetWidth(PenSetWidth(PenSetDashArray(DefaultQPen,
                                            [i \in 1 .. Len(D) |-> Mul(D[i], w)]),
                            Num(1)), w)

\* C7: for w > 0 a fresh pen driven by setWidth(w); setDashArray(D) renders
\* the same dashes as a fresh pen driven by setDashArray(D * w);
\* setWidth(1); setWidth(w).
C7_DashOrderInvariance ==
    (/\ Len(penLog) = 2
     /\ penLog[1].op = "set_width" /\ penLog[1].arg.n > 0
     /\ penLog[2].op = "set_dash_array")
    => Rendered(qpen.pen) = Rendered(DashFirst(penLog[1].arg, penLog[2].arg))

\* C8: the dash offset and the dash array are normalised alike: the same
\* raw value given to qtc_qpen_set_dash_offset and, as first entry, to
\* qtc_qpen_set_dash_array while the pen holds the same width - zero,
\* negligibly small or ordinary - is stored as the same number.
C8_SameDivisor ==
    LET i == LastCall(penLog, "set_dash_offset")
        j == LastDash
    IN  (/\ i > 0 /\ j > 0
         /\ penLog[i].width = penLog[j].width
         /\ penLog[j].arg # <<>>
         /\ penLog[i].arg = penLog[j].arg[1])
        => qpen.pen.dashOffset = qpen.pen.dashPattern[1]

(***************************************************************************)
(* Properties of the Qt brush, pen and painter.                            *)
(***************************************************************************)

\* the paint kind a QBrush draws with: QBrush::style()
Kind(br) ==
    CASE br.style = "SolidPattern" -> "color"
      [] br.style = "LinearGradientPattern" -> "linear"
      [] br.style = "RadialGradientPattern" -> "radial"
      [] br.style = "TexturePattern" -> "pattern"
      [] OTHER -> "none"

\* C9: the paint kind a brush is active with is the kind of the most
\* recent qtc_qbrush_set_color / set_linear_gradient / set_radial_gradient /
\* set_pattern call made on it; set_color on a brush holding a gradient or a
\* pattern switches it to solid colour.
C9_ActiveKindIsLastSet ==
    (qbrush.live /\ lastKind # "none") => Kind(qbrush.brush) = lastKind

\* C10: attaching is by copy: a setter call on, or the destroy of, a source
\* handle (a gradient or image given to a brush, a brush given to a pen or
\* to the painter, a pen given to the painter) leaves the state held by
\* every target unchanged.
C10_AttachIsByCopy ==
    [][/\ (qlg' # qlg \/ qrg' # qrg \/ qimg' # qimg)
             => (qbrush' = qbrush /\ qpen' = qpen /\ qpainter' = qpainter)
       /\ qbrush' # qbrush => (qpen' = qpen /\ qpainter' = qpainter)
       /\ qpen' # qpen => qpainter' = qpainter]_vars

\* C10 witness: a gradient was given to the brush and the brush to the
\* painter; the gradient was then changed and destroyed, and brush and
\* painter still hold the gradient as it was when attached.
C10_Witness ==
    /\ ~qlg.live
    /\ qbrush.brush.gradient.type = "linear"
    /\ qbrush.brush.gradient # qlg.gr
    /\ qpainter.brush = qbrush.brush

(***************************************************************************)
(* Properties of the fallible calls.                                       *)
(***************************************************************************)

\* C11: whenever the toolkit yields no object to skiac_surface_copy_rgba,
\* skiac_shader_make_* or skiac_path_effect_make_dash_path, the call
\* returns a null handle and the program does not abort.
C11_NullHandleWhenNothingMade ==
    \A i \in 1 .. Len(mkLog) :
        (/\ mkLog[i].be = "skia"
         /\ mkLog[i].fn \in {"copy", "make_linear_gradient",
                             "make_two_point_conical_gradient", "make_dash_path"}
         /\ ~mkLog[i].yielded)
        => mkLog[i].ret = "null" /\ ~aborted

\* C12: a create call that fails returns a null handle and leaves as many
\* live native image objects as there were before it.
C12_FailedCreateLeavesNothing ==
    \A i \in 1 .. Len(mkLog) :
        (mkLog[i].fn = "create" /\ ~mkLog[i].yielded)
        => mkLog[i].ret = "null" /\ mkLog[i].after = mkLog[i].before

\* C13: in every build a save call returns true only if the image was
\* encoded and the bytes were written, and false otherwise.
C13_SaveTrueOnlyIfWritten ==
    \A i \in 1 .. Len(mkLog) :
        mkLog[i].fn = "save" => (mkLog[i].ret = "true" <=> mkLog[i].yielded)

\* the matrix r = m / den applied after src gives the identity
IsInverseOf(r, src) ==
    LET p == SkConcat(r.m, src) IN
    /\ p.scaleX = r.den /\ p.scaleY = r.den
    /\ p.skewX = 0 /\ p.skewY = 0 /\ p.transX = 0 /\ p.transY = 0

IsIdentity(r) ==
    /\ r.m.scaleX = r.den /\ r.m.scaleY = r.den
    /\ r.m.skewX = 0 /\ r.m.skewY = 0 /\ r.m.transX = 0 /\ r.m.transY = 0

\* C14: in both Skia adapter versions skiac_matrix_create_inverse returns a
\* null handle or a handle to the identity for a non-invertible matrix,
\* never a handle to a matrix that is neither the inverse nor the identity.
C14_InverseOrIdentityOrNull ==
    \A be \in Backends :
        inverse[be].st = "live" =>
            IsInverseOf(inverse[be], native[be]) \/ IsIdentity(inverse[be])

\* C15: in every backend copyRegion(x, y, w, h) of a rectangle that is not
\* empty returns a new w-by-h canvas in straight-alpha mode, whatever the
\* alpha mode of the source, whose pixel (i, j) is the source pixel
\* (x + i, y + j) inside the source.
C15_CopyIsStraightRegion ==
    LET e == mkLog[Len(mkLog)] IN
    (Len(mkLog) > 0 /\ e.fn = "copy" /\ e.ret = "handle" /\ e.args[3] > 0 /\ e.args[4] > 0) =>
        LET c == copied[e.be]
            src == image[e.be] IN
        /\ c.w = e.args[3] /\ c.h = e.args[4]
        /\ ~c.premul
        /\ \A cell \in Cells(c.w, c.h) :
              LET at == <<cell[1] + e.args[1], cell[2] + e.args[2]>> IN
              at \in Cells(src.w, src.h) => c.px[cell] = src.px[at]

(***************************************************************************)
(* Properties of the paths.                                                *)
(***************************************************************************)

\* C16: in every backend a newly created path has the non-zero (winding)
\* fill rule and keeps it through any sequence of move / line / curve /
\* close calls until the fill rule setter is called.
C16_DefaultFillRuleIsNonZero ==
    \A be \in ImgBackends : ~ruleSet[be] => path[be].fillRule = FillRules(be)[1]

(***************************************************************************)
(* Properties of drawing and clipping.                                     *)
(***************************************************************************)

\* C17: a canvas starts fully transparent without the caller filling it:
\* after drawing with a solid opaque brush the pixels filled last and not
\* stroked have the brush's colour, and every pixel not covered by a draw
\* call is fully transparent.
C17_StartsTransparent ==
    LET img == image["qt"] IN
    img.st = "live" =>
        /\ \A c \in Cells(img.w, img.h) \ paintHist.painted : img.px[c] = Transparent
        /\ paintHist.lastColor[4] = 255 =>
              \A c \in paintHist.lastFill \ paintHist.lastStroke :
                  img.px[c] = paintHist.lastColor

\* a draw call of the painter
DrawStep == paintHist'.last = "draw" /\ paintHist'.calls = paintHist.calls + 1

QtClipIsLast ==
    /\ paintHist.clip \in {"set_clip_rect", "set_clip_path"} =>
          qpainter.clipping /\ qpainter.clip = paintHist.region
    /\ paintHist.clip = "reset_clip_path" => ~qpainter.clipping

\* a skiac_canvas_clip_rect call with the rectangle r
SkClipStep(r) == skiac_canvas_clip_rect(r[1], r[2], r[3], r[4]) /\ calls' = calls + 1

\* the device points of the rectangle r under the canvas' current matrix
SkClipRegion(r) ==
    MappedRect(Top.matrix, SkScalar(r[1]), SkScalar(r[2]), SkScalar(r[3]), SkScalar(r[4]))

C20_FailedLoadLeavesNoDocument ==
    (loads # <<>> /\ ~loads[Len(loads)].ret)
        => (~ResvgRenderer_isValid /\ ResvgRenderer_isEmpty)

\* C21: in each version of the wrapper, with the resvg_is_image_empty of the
\* resvg.h it is built on, isEmpty() is false exactly when a document is
\* loaded and its tree has at least one node, and true otherwise.
C21_IsEmptyIffNoNodes ==
    LET some == dptr.tree # NoTree /\ HasNodes(dptr.tree)
    IN  /\ ResvgRenderer_isEmpty = ~some
        /\ ResvgRenderer_isEmpty_c_api = ~some

\* C22: boundsOnElement(id) returns the bounding box the library reports for
\* the element, field by field (x, y, width, height), and the empty rectangle
\* when no document is loaded or the element has no bounding box.
C22_BoundsFieldsInPlace ==
    asked.version # "none" =>
        LET bbox == NodeBBox(asked.tree, asked.id)
        IN  IF asked.tree # NoTree /\ HasBBox(asked.tree, asked.id)
            THEN /\ asked.ret.x = bbox.x
                 /\ asked.ret.y = bbox.y
                 /\ asked.ret.width = bbox.width
                 /\ asked.ret.height = bbox.height
            ELSE asked.ret = QRectF(0, 0, 0, 0)

(***************************************************************************)
(* Properties of the viewers.                                              *)
(***************************************************************************)
\* C23: the demo's worker emits rendered(img) only after the painter begun
\* on img has been ended, on the Resvg and on the QtSvg path; what crosses to
\* the UI thread is the image, never with a painter active on it.
C23_HandedOverAfterEnd ==
    /\ \A i \in 1 .. Len(uiEvents) : ~uiEvents[i].painting
    /\ ~svgView.m_img.painting
    /\ wkThread.img.painting => wkThread.pc = "painting"

C23_Witness ==
    /\ svgView.app = "qt-demo"
    /\ svgView.m_backend = "QtSvg"
    /\ svgView.m_img.gen > 0
    /\ uiEvents # <<>>

\* C25: under fair scheduling, whenever the spinner timer of viewsvg has been
\* started for a loaded document, onRendered eventually stops it.
C25_SpinnerEnds == svgView.m_timer ~> ~svgView.m_timer

\* C26: every onRendered that runs after a load has returned installs an
\* image rendered from the most recently loaded document.
C26_NeverInstallsStale ==
    svgView.installedAt > 0 => svgView.installed.gen = svgView.installedAt

\* C27: the UI thread in loadData / loadFile / viewBox and the worker thread
\* in render are never inside their renderer-accessing sections together,
\* each holds m_mutex while inside, and no render has seen a renderer in the
\* middle of a load.
UiInside == uiThread.pc \in {"load", "loaded", "viewBox"}
WorkerInside == wkThread.pc \in {"render", "painting", "painted"}
C27_RendererUnderMutex ==
    /\ ~(UiInside /\ WorkerInside)
    /\ UiInside => m_mutex = "ui"
    /\ WorkerInside => m_mutex = "worker"
    /\ ~svgWorker.sawLoading

C27_Witness ==
    /\ WorkerInside
    /\ uiThread.pc = "requestUpdate"
    /\ ~svgView.m_isFitToView

(***************************************************************************)
(* Properties of the diff tool.                                            *)
(***************************************************************************)
\* C24: for every pixel of the overlapping area diffImage marks the pixel red
\* and counts it exactly when the Euclidean distance of the two (R, G, B)
\* triples is greater than 5, and marks it white otherwise; the diff value is
\* the number of red pixels and never exceeds w * h.
SquaredDistance(c1, c2) ==
    (c1[1] - c2[1]) * (c1[1] - c2[1]) + (c1[2] - c2[2]) * (c1[2] - c2[2])
        + (c1[3] - c2[3]) * (c1[3] - c2[3])
C24_RedIffFartherThanFive ==
    diffOutput # NoDiff =>
        /\ \A c \in DiffCells(diffOutput.w, diffOutput.h) :
              diffOutput.img[c] =
                  IF SquaredDistance(diffData.img1.px[c], diffData.img2.px[c]) > 5 * 5
                  THEN "red" ELSE "white"
        /\ diffOutput.value = Cardinality({c \in DOMAIN diffOutput.img : diffOutput.img[c] = "red"})
        /\ diffOutput.value <= diffOutput.w * diffOutput.h

\* C28: every Render::render request is followed by exactly one finished():
\* never more than one since the last request, none while an image or a diff
\* is still being processed, right after the error and without any diff when
\* no Chrome image was produced, and always one in the end, so that the
\* controls are enabled again - also when renderers failed.
FinishedOnceInTime ==
    /\ mainWindow.finished <= 1
    /\ mainWindow.gui <=> (mainWindow.requests = 0 \/ mainWindow.finished = 1)
    /\ mainWindow.finished = 1 =>
          /\ m_render.phase = "idle"
          /\ mainWindow.warnings \cup m_render.m_imgs = ImageTypes
          /\ IF "Chrome" \in m_render.m_imgs
             THEN mainWindow.errors = 0 /\ mainWindow.diffs = m_render.m_imgs \ {"Chrome"}
             ELSE mainWindow.errors = 1 /\ mainWindow.diffs = {}
C28_ExactlyOneFinished ==
    /\ []FinishedOnceInTime
    /\ ~mainWindow.gui ~> mainWindow.gui

C28_Witness ==
    /\ mainWindow.requests = MaxRenders
    /\ mainWindow.finished = 1
    /\ mainWindow.gui
    /\ mainWindow.warnings # {}
    /\ mainWindow.diffs # {}

\* C29: in the Skia viewers a load that fails returns false and leaves tree_,
\* imageChanged_ and svgSize_ as they were; no tree is destroyed more than
\* once, none that is still the viewer's tree, and once the viewer is
\* destroyed every tree created for it has been destroyed exactly once.
SkiaFailedLoadKeeps ==
    skView.returned = "false" => SkiaLoaded(skView) = skView.before
SkiaTreesDestroyedOnce ==
    \A t \in 1 .. Len(skTrees) :
        skTrees[t].destroyed = IF skView.alive /\ t = skView.tree_ THEN 0 ELSE 1
C29_FailedLoadKeepsTreeDestroyedOnce == SkiaFailedLoadKeeps /\ SkiaTreesDestroyedOnce

\* C30: the thumbnailer's g_cRef is never negative, whatever the order of
\* DllAddRef and DllRelease calls - a DllRelease without a DllAddRef among
\* them - and DllCanUnloadNow answers S_OK whenever no CThumbnailProvider is
\* alive and no DllAddRef from outside is left unmatched.
NoProviderAlive == \A o \in Providers : thumbnailer.m_cRef[o] = 0
C30_ModuleCountNeverNegative ==
    /\ thumbnailer.g_cRef >= 0
    /\ (NoProviderAlive /\ thumbnailer.held <= 0 /\ thumbnailer.canUnload # "not asked")
           => thumbnailer.canUnload = "S_OK"

====
